---------------------------- MODULE Spec2Model ----------------------------
(***************************************************************************)
(* A model of the boundary exploration engine of racing_sembas:            *)
(*   - MeshExplorer (src/src/explorers/mesh_explorer.rs),                  *)
(*   - ConstantAdherer (src/src/adherers/const_adherer.rs),                *)
(*   - Span / Domain (src/src/structs/mod.rs) and the example classifiers  *)
(*     (src/src/sps.rs, src/tests/exploration.rs).                         *)
(*                                                                         *)
(* Geometry.  Points and vectors are N-tuples of integers (a lattice).     *)
(* Every rotation angle is a multiple of 90 degrees, for which the         *)
(* rotation matrix I + A sin(t) + B (cos(t) - 1) of Span::get_rotater has  *)
(* integer entries, so that all arithmetic of the code is computed         *)
(* exactly.  Lengths are compared through their squares.  The value a      *)
(* float computation yields for 0/0 is the vector NaNVec: it is absorbing  *)
(* under +, * and the rotation, and every comparison with it is false.     *)
(*                                                                         *)
(* Indices (NodeID, NodeIndex, RTree payloads) are 0-based as in the code; *)
(* At(s, i) reads position i of a sequence.                                *)
(***************************************************************************)
EXTENDS Integers, Sequences, FiniteSets, TLC

VARIABLES
    classifier,     \* the classifier handed to step / sample_next
    d,              \* MeshExplorer.d
    margin,         \* MeshExplorer.margin, the fraction [num, den]
    boundary,       \* MeshExplorer.boundary : Vec<Halfspace>
    path_queue,     \* MeshExplorer.path_queue : Vec<(NodeID, SVector)>
    current_parent, \* MeshExplorer.current_parent
    tree,           \* MeshExplorer.tree : [nodes : Seq(Halfspace), edges : Seq(<<src, dst>>)]
    knn_index,      \* MeshExplorer.knn_index : the entries [geom, data] of the RTree
    adherer,        \* MeshExplorer.adherer : Option<ConstantAdherer>, << >> or <<a>>
    adherer_f,      \* MeshExplorer.adherer_f : ConstantAdhererFactory
    search,         \* the frame of a running binary_surface_search, << >> or <<f>>
    stream,         \* the TCP connection of the remote classifier, << >> or <<s>>
    ret,            \* what the last call returned (history)
    log             \* history of the run: enqueued / dequeued / started paths, queries

vars == <<classifier, d, margin, boundary, path_queue, current_parent, tree,
          knn_index, adherer, adherer_f, search, stream, ret, log>>

-----------------------------------------------------------------------------
(* Bounds of the model.                                                    *)

\* Lattice coordinates of the envelopes and of the domain range over 0..GridMax.
GridMax == 2
\* The largest answer budget of the test classifier that fails after some answers.
MaxLimit == 3
\* The driver's cap on the number of halfspaces (it stops stepping at the cap).
MaxBoundary == 12
\* The number of answers of a classifier that replays a list of answers, and
\* the number of calls a driver makes on one adherer.
MaxAnswers == 5
\* The number of calls a server program makes on its remote classifier.
MaxCalls == 3
\* The largest number of checks num_checks of a find_opposing_boundary.
MaxChecks == 2
\* The number of cells of a classifier between a point and the edge of the
\* domain.
NCells == 4
\* The number of times the distance to the edge of the domain can be halved.
FobDepth == 16
\* The largest number of calls of backprop and load_boundary by a driver, and
\* the largest boundary it explores.
MaxRefits == 2
MaxMesh == 7
\* The largest step max_err of a reacquisition, in lattice steps, and the
\* largest cap on its samples.
MaxStep == 2
\* The largest iteration count n_iter of a BinarySearchAdherer.
MaxNIter == 4
\* The largest cap max_samples of a binary_surface_search.
MaxSamples == 3

\* The number of lines and class bytes a client sends ahead of the server.
MaxSent == 3

\* const N: usize, the dimension of the input space.
N == 3

Axes == 1..N

\* F(e) as `let x = e; F(x)`: e is evaluated once, then F on its value.
With(e, F(_)) == CHOOSE r \in {F(x) : x \in {e}} : TRUE

\* The same for two arguments.
With2(e1, e2, F(_, _)) == CHOOSE r \in {F(x, y) : x \in {e1}, y \in {e2}} : TRUE

-----------------------------------------------------------------------------
(* Vectors: SVector<f64, N>.                                               *)

NaNVec == << >>

IsNaN(x) == x = NaNVec

Zeros == [i \in Axes |-> 0]

\* The i-th column of the identity matrix (0-based, as basis_vectors.column(i)).
BasisColumn(i) == [k \in Axes |-> IF k = i + 1 THEN 1 ELSE 0]

VAdd(x, y) ==
    With2(x, y, LAMBDA a, b :
        IF IsNaN(a) \/ IsNaN(b) THEN NaNVec ELSE [k \in Axes |-> a[k] + b[k]])

VSub(x, y) ==
    With2(x, y, LAMBDA a, b :
        IF IsNaN(a) \/ IsNaN(b) THEN NaNVec ELSE [k \in Axes |-> a[k] - b[k]])

VScale(a, x) ==
    With2(a, x, LAMBDA s, y : IF IsNaN(y) THEN NaNVec ELSE [k \in Axes |-> s * y[k]])

VNeg(x) == VScale(-1, x)

RECURSIVE DotTo(_, _, _)
DotTo(x, y, k) == IF k = 0 THEN 0 ELSE x[k] * y[k] + DotTo(x, y, k - 1)

\* x . y for two vectors that are not NaN.
Dot(x, y) == With2(x, y, LAMBDA a, b : DotTo(a, b, N))

Norm2(x) == Dot(x, x)

RECURSIVE ISqrtFrom(_, _)
ISqrtFrom(n, r) == IF (r + 1) * (r + 1) > n THEN r ELSE ISqrtFrom(n, r + 1)

\* The integer square root.
ISqrt(n) == ISqrtFrom(n, 0)

\* x / r for the norm r of x: on the lattice when r is an integer that divides
\* every coordinate.  The model never normalizes any other vector (the CASE
\* has no OTHER arm, so that such a vector would stop the check).
Unscale(x, n2, r) ==
    CASE n2 = 0 -> NaNVec
      [] n2 > 0 /\ r * r = n2 /\ (\A k \in Axes : x[k] % r = 0)
         -> [k \in Axes |-> x[k] \div r]

\* x.normalize() = x / x.norm().  The zero vector gives 0/0 = NaN in every
\* coordinate.
Normalize(x) ==
    IF IsNaN(x) THEN NaNVec
    ELSE With(Norm2(x), LAMBDA n2 : With(ISqrt(n2), LAMBDA r : Unscale(x, n2, r)))

\* The square of array_distance(a1, a2), for two points that are not NaN.
Dist2(a1, a2) == With(VSub(a2, a1), Norm2)

\* array_distance(a1, a2) < m for the length m = m.num / m.den, on squares.
\* With a NaN operand the distance is NaN and the comparison is false.
DistLess(a1, a2, m) ==
    IF IsNaN(a1) \/ IsNaN(a2) THEN FALSE
    ELSE Dist2(a1, a2) * m.den * m.den < m.num * m.num

-----------------------------------------------------------------------------
(* Span<N> and its rotater.                                                *)

\* Span::new, the second vector: v - u (u . v), normalized.
Orthonormalize(un, vn) ==
    IF IsNaN(un) \/ IsNaN(vn) THEN NaNVec
    ELSE With(VSub(vn, VScale(Dot(un, vn), un)), Normalize)

\* Span::new(u, v): Gram-Schmidt, u retains its direction.
SpanOf(un, vn) == [u |-> un, v |-> Orthonormalize(un, vn)]

SpanNew(u, v) ==
    With(Normalize(u), LAMBDA un : With(Normalize(v), LAMBDA vn : SpanOf(un, vn)))

\* angle.sin() and angle.cos() for an angle in degrees, a multiple of 90.
Sin(angle) ==
    CASE angle % 360 = 0 -> 0
      [] angle % 360 = 90 -> 1
      [] angle % 360 = 180 -> 0
      [] angle % 360 = 270 -> -1

Cos(angle) ==
    CASE angle % 360 = 0 -> 1
      [] angle % 360 = 90 -> 0
      [] angle % 360 = 180 -> -1
      [] angle % 360 = 270 -> 0

\* x + a x sin(angle) + b x (cos(angle) - 1) for ux = u . x and vx = v . x,
\* with a = u v^T - v u^T and b = v v^T + u u^T.
RotateBy(span, angle, x, ux, vx) ==
    With(VSub(VScale(vx, span.u), VScale(ux, span.v)), LAMBDA ax :
    With(VAdd(VScale(vx, span.v), VScale(ux, span.u)), LAMBDA bx :
        VAdd(x, VAdd(VScale(Sin(angle), ax), VScale(Cos(angle) - 1, bx)))))

\* (span.get_rotater()(angle)) * x, with
\*   rot = I + a sin(angle) + b (cos(angle) - 1).
\* A NaN in u or v makes every entry of a and b NaN (0 * NaN = NaN).
Rotate(span, angle, x) ==
    IF IsNaN(span.u) \/ IsNaN(span.v) \/ IsNaN(x) THEN NaNVec
    ELSE With(Dot(span.u, x), LAMBDA ux :
         With(Dot(span.v, x), LAMBDA vx : RotateBy(span, angle, x, ux, vx)))

\* align_vector.angle(&n) in degrees, for unit lattice vectors.
Angle(x, y) ==
    CASE Dot(x, y) = 1 -> 0
      [] Dot(x, y) = 0 -> 90
      [] Dot(x, y) = -1 -> 180


-----------------------------------------------------------------------------
(* Samples and classifiers.                                                *)

\* Sample::from_class(p, cls)
FromClass(p, cls) == [cls |-> cls, p |-> p]

\* Domain::contains(p): no coordinate below low, none above high.  Every
\* comparison with a NaN coordinate is false, so a NaN point is "contained".
Contains(dom, p) ==
    IF IsNaN(p) THEN TRUE
    ELSE /\ ~(\E k \in Axes : p[k] < dom.low[k])
         /\ ~(\E k \in Axes : p[k] > dom.high[k])

Ok(c, sample) == [classifier |-> c, ok |-> TRUE, sample |-> sample, err |-> "none"]

Err(c, e) == [classifier |-> c, ok |-> FALSE, sample |-> FromClass(NaNVec, FALSE), err |-> e]

\* impl Classifier for Cube
CubeClassify(c, p) ==
    IF c.domain # << >> /\ ~Contains(c.domain[1], p)
    THEN Err(c, "OutOfBounds")
    ELSE Ok(c, FromClass(p, Contains(c.shape, p)))

\* impl Classifier for Sphere: (center - p).norm() <= radius, on squares.
SphereClassify(c, p) ==
    IF c.domain # << >> /\ ~Contains(c.domain[1], p)
    THEN Err(c, "OutOfBounds")
    ELSE Ok(c, FromClass(p, IF IsNaN(p) THEN FALSE
                            ELSE Norm2(VSub(c.center, p)) <= c.radius2))

\* The TestClassifier of oob_err_prunes_exploration_branch: WithinMode for the
\* first answers, OutOfBounds once i > limit (limit = 2 in the test).
OobTestClassify(c, p) ==
    IF c.i > c.limit
    THEN Err(c, "OutOfBounds")
    ELSE Ok([c EXCEPT !.i = c.i + 1], FromClass(p, TRUE))

\* The TestClassifier of ble_err_prunes_exploration_branch: always WithinMode.
BleTestClassify(c, p) == Ok(c, FromClass(p, TRUE))

\* A FunctionClassifier over a closure that replays a list of answers:
\* "W" (true), "O" (false) or "E" (Err(OutOfBounds)).
ScriptClassify(c, p) ==
    LET a == Head(c.answers)
        c2 == [c EXCEPT !.answers = Tail(c.answers)]
    IN  IF a = "E" THEN Err(c2, "OutOfBounds") ELSE Ok(c2, FromClass(p, a = "W"))

\* A FunctionClassifier over a closure on the points pivot.b + v of an arc (see
\* ArcPoint): the class changes once along the arc, after the angle c.last;
\* WithinMode is the side of the smaller angles (within_low) or the other one.
ArcClassify(c, p) ==
    Ok(c, FromClass(p, IF c.within_low THEN p.turned <= c.last ELSE p.turned > c.last))

\* A classifier with a domain on the points of a line (see LinePoint):
\* OutOfBounds beyond c.high, WithinMode up to c.last and, when c.again is
\* set, from c.again[1] on.
LineClassify(c, p) ==
    IF p.along > c.high THEN Err(c, "OutOfBounds")
    ELSE Ok(c, FromClass(p, \/ p.along <= c.last
                            \/ (c.again # << >> /\ p.along >= c.again[1])))

\* s.norm() for a vector along the line.
Abs(s) == IF s < 0 THEN -s ELSE s

\* A deterministic classifier with a domain on the points of a line: the
\* class is c.origin at 0 and otherwise that of the cell of c.width ticks the
\* distance from 0 falls into, OutOfMode beyond the last cell.
CellOf(c, p) == (Abs(p.along) + c.width - 1) \div c.width

CellsClassify(c, p) ==
    IF p.along < c.domain.low \/ p.along > c.domain.high THEN Err(c, "OutOfBounds")
    ELSE Ok(c, FromClass(p, CASE p.along = 0 -> c.origin
                              [] CellOf(c, p) \in DOMAIN c.cells -> c.cells[CellOf(c, p)]
                              [] OTHER -> FALSE))

\* A FunctionClassifier over a closure that replays a list of answers as a
\* Script does and notes the points it is asked, with its answers.
TapeClassify(c, p) ==
    LET a == Head(c.answers)
        c2 == [c EXCEPT !.answers = Tail(c.answers),
                        !.asked = Append(c.asked, [p |-> p, answer |-> a])]
    IN  IF a = "E" THEN Err(c2, "OutOfBounds") ELSE Ok(c2, FromClass(p, a = "W"))

\* classifier.classify(p), dispatched on the implementation.
ClassifyImpl(c, p) ==
    CASE c.kind = "Cube" -> CubeClassify(c, p)
      [] c.kind = "Sphere" -> SphereClassify(c, p)
      [] c.kind = "OobTest" -> OobTestClassify(c, p)
      [] c.kind = "BleTest" -> BleTestClassify(c, p)
      [] c.kind = "Script" -> ScriptClassify(c, p)
      [] c.kind = "Arc" -> ArcClassify(c, p)
      [] c.kind = "Line" -> LineClassify(c, p)
      [] c.kind = "Cells" -> CellsClassify(c, p)
      [] c.kind = "Tape" -> TapeClassify(c, p)

\* classifier.classify(p); the field calls counts the invocations (history).
Classify(c, p) ==
    LET r == ClassifyImpl(c, p)
    IN  [r EXCEPT !.classifier.calls = c.calls + 1]

-----------------------------------------------------------------------------
(* ConstantAdherer.                                                        *)

Searching == [tag |-> "Searching"]

FoundBoundary(hs) == [tag |-> "FoundBoundary", hs |-> hs]

\* std::f64::consts::PI, in degrees.
PI == 180

\* ConstantAdherer::new.  rot is << >> (None) or <<angle>>: the matrix
\* span.get_rotater()(angle).
ConstantAdhererNew(pivot, v, delta_angle, max_rotation) ==
    [span |-> SpanNew(pivot.n, v),
     pivot |-> pivot,
     v |-> v,
     delta_angle |-> delta_angle,
     max_rotation |-> IF max_rotation = << >> THEN PI ELSE max_rotation[1],
     rot |-> << >>,
     samples |-> << >>,
     angle |-> 0,
     state |-> Searching]

\* take_initial_sample after classify answered r: `?` returns the error,
\* else rot is set from the class of the sample.
ConstInitialRot(adh, r) ==
    IF ~r.ok THEN [adherer |-> adh, res |-> r]
    ELSE [adherer |-> [adh EXCEPT !.rot = <<IF r.sample.cls THEN adh.delta_angle
                                            ELSE -adh.delta_angle>>],
          res |-> r]

\* A variant of take_initial_sample that classifies its point twice.
ConstTakeInitialSampleTwice(adh, c) ==
    With(Classify(Classify(c, VAdd(adh.pivot.b, adh.v)).classifier,
                  VAdd(adh.pivot.b, adh.v)),
         LAMBDA r : ConstInitialRot(adh, r))

\* ConstantAdherer::take_initial_sample: [adherer, res], res the answer of classify.
ConstTakeInitialSample(adh, c) ==
    With(Classify(c, VAdd(adh.pivot.b, adh.v)), LAMBDA r : ConstInitialRot(adh, r))

\* A variant of take_sample that leaves self.angle as it was.
ConstTakeRotatedNoAngle(adh, v2, c) ==
    [adherer |-> [adh EXCEPT !.v = v2],
     res |-> Classify(c, VAdd(adh.pivot.b, v2))]

\* take_sample once self.v = rot * self.v is computed.
ConstTakeRotated(adh, v2, c) ==
    [adherer |-> [adh EXCEPT !.v = v2, !.angle = adh.angle + adh.delta_angle],
     res |-> Classify(c, VAdd(adh.pivot.b, v2))]

\* ConstantAdherer::take_sample
ConstTakeSample(adh, rot, c) ==
    With(Rotate(adh.span, rot, adh.v), LAMBDA v2 : ConstTakeRotated(adh, v2, c))

\* A variant that reports the halfspace at the pivot.
ConstHalfspaceAtPivot(adh, b) ==
    [b |-> adh.pivot.b, n |-> With(Rotate(adh.span, 90, VSub(b, adh.pivot.b)), Normalize)]

\* The halfspace at b: n = (rot90 * (b - pivot.b)).normalize()
ConstHalfspace(adh, b) ==
    [b |-> b, n |-> With(Rotate(adh.span, 90, VSub(b, adh.pivot.b)), Normalize)]

\* A variant of the match on (cur, prev) that takes b from cur whatever its class.
ConstMatchCur(adh, cur, prev) ==
    IF cur.cls # prev.cls
    THEN [adh EXCEPT !.state = FoundBoundary(ConstHalfspace(adh, cur.p))]
    ELSE adh

\* sample_next, the match on (cur, prev): a class change sets the state to
\* FoundBoundary at the WithinMode sample of the pair.
ConstMatch(adh, cur, prev) ==
    IF cur.cls # prev.cls
    THEN [adh EXCEPT !.state = FoundBoundary(ConstHalfspace(adh, IF cur.cls THEN cur.p
                                                                  ELSE prev.p))]
    ELSE adh

\* sample_next, if let Some(prev) = self.samples.last()
ConstDetect(adh, cur) ==
    IF adh.samples # << >> THEN ConstMatch(adh, cur, adh.samples[Len(adh.samples)])
    ELSE adh

\* A variant of the end of sample_next that gives up at max_rotation already.
ConstFinishAtMax(adh, res) ==
    IF adh.state = Searching /\ adh.angle >= adh.max_rotation
    THEN [adherer |-> adh, classifier |-> res.classifier,
          ok |-> FALSE, sample |-> res.sample, err |-> "BoundaryLost"]
    ELSE [adherer |-> [adh EXCEPT !.samples = Append(adh.samples, res.sample)],
          classifier |-> res.classifier,
          ok |-> TRUE, sample |-> res.sample, err |-> "none"]

\* sample_next, the end: BoundaryLost while Searching beyond max_rotation, else
\* the sample is pushed and returned.
ConstFinish(adh, res) ==
    IF adh.state = Searching /\ adh.angle > adh.max_rotation
    THEN [adherer |-> adh, classifier |-> res.classifier,
          ok |-> FALSE, sample |-> res.sample, err |-> "BoundaryLost"]
    ELSE [adherer |-> [adh EXCEPT !.samples = Append(adh.samples, res.sample)],
          classifier |-> res.classifier,
          ok |-> TRUE, sample |-> res.sample, err |-> "none"]

\* sample_next after take_sample / take_initial_sample returned t: `?` returns
\* the classifier's error.
ConstAfterSample(t) ==
    IF ~t.res.ok
    THEN [adherer |-> t.adherer, classifier |-> t.res.classifier,
          ok |-> FALSE, sample |-> t.res.sample, err |-> t.res.err]
    ELSE With(ConstDetect(t.adherer, t.res.sample), LAMBDA a : ConstFinish(a, t.res))

\* ConstantAdherer::sample_next: [adherer, classifier, ok, sample, err]
ConstSampleNext(adh, c) ==
    With(IF adh.rot # << >> THEN ConstTakeSample(adh, adh.rot[1], c)
         ELSE ConstTakeInitialSample(adh, c),
         ConstAfterSample)

\* ConstantAdhererFactory::adhere_from
AdhereFrom(f, hs, v) == ConstantAdhererNew(hs, v, f.delta_angle, f.max_rotation)


-----------------------------------------------------------------------------
(* BinarySearchAdherer.  The adherer only ever rotates v in the plane of   *)
(* Span::new(pivot.n, v), by angles that are halved call after call, so v  *)
(* is kept as the angle it has been turned by from its first direction     *)
(* (positive towards pivot.n, as the rotater turns) and the point          *)
(* pivot.b + v as that angle on the arc around pivot.b.  Angles are in     *)
(* ticks, BsQuarter of them to the quarter turn.                           *)

\* n_iter - 1 on u32.  The counter is kept as its representative of least
\* absolute value modulo 2^32: 0 - 1 wraps around to 2^32 - 1, kept as -1.
U32Dec(n) == n - 1

\* PI / 2 in ticks; fine enough for every halving of a run to be exact.
BsQuarter == 2 ^ (MaxAnswers + 1)

\* pivot.b, the centre of the arc.
ArcCentre == [centre |-> TRUE]

\* The point pivot.b + v for v = the first displacement turned by theta.
ArcPoint(theta) == [turned |-> theta]

\* angle / 2.0, exact on the ticks (no OTHER arm: an inexact halving would
\* stop the check).
Half(angle) == CASE angle % 2 = 0 -> angle \div 2

\* BinarySearchAdherer::new.  prev_cls, t and x are << >> (None) or <<value>>.
BinarySearchAdhererNew(pivot, v, init_angle, n_iter) ==
    [pivot |-> pivot,
     v |-> v,
     samples |-> << >>,
     n_iter |-> n_iter,
     angle |-> init_angle,
     prev_cls |-> << >>,
     t |-> << >>,
     x |-> << >>,
     state |-> Searching]

\* self.prev_cls = Some(sample.class()), then the match that sets t or x.
BsRemember(adh, sample) ==
    [adh EXCEPT !.prev_cls = <<sample.cls>>,
                !.t = IF sample.cls THEN <<sample.p>> ELSE @,
                !.x = IF sample.cls THEN @ ELSE <<sample.p>>]

\* A variant of take_initial_sample that leaves n_iter as it was.
BsAfterInitialNoCount(adh, r) ==
    IF ~r.ok THEN [adherer |-> adh, res |-> r, overflow |-> FALSE]
    ELSE [adherer |-> BsRemember(adh, r.sample), res |-> r, overflow |-> FALSE]

\* take_initial_sample after classify answered r: `?` returns the error, else
\* the sample is remembered and n_iter decremented (u32: 0 - 1 overflows).
BsAfterInitial(adh, r) ==
    IF ~r.ok THEN [adherer |-> adh, res |-> r, overflow |-> FALSE]
    ELSE [adherer |-> [BsRemember(adh, r.sample) EXCEPT !.n_iter = U32Dec(adh.n_iter)],
          res |-> r,
          overflow |-> adh.n_iter = 0]

\* BinarySearchAdherer::take_initial_sample: [adherer, res, overflow].
BsTakeInitialSample(adh, c) ==
    With(Classify(c, ArcPoint(adh.v)), LAMBDA r : BsAfterInitial(adh, r))

\* take_sample after classify answered r: `?` returns the error, else the
\* sample is remembered, the angle halved and n_iter decremented.
BsAfterRotated(adh, r) ==
    IF ~r.ok THEN [adherer |-> adh, res |-> r, overflow |-> FALSE]
    ELSE [adherer |-> [BsRemember(adh, r.sample) EXCEPT
                          !.angle = Half(adh.angle),
                          !.n_iter = U32Dec(adh.n_iter)],
          res |-> r,
          overflow |-> adh.n_iter = 0]

\* take_sample once self.v = rot * self.v is computed.
BsTakeRotated(adh, v2, c) ==
    With(Classify(c, ArcPoint(v2)), LAMBDA r : BsAfterRotated([adh EXCEPT !.v = v2], r))

\* BinarySearchAdherer::take_sample: rotate by ccw * angle, classify.
BsTakeSample(adh, prev_cls, c) ==
    BsTakeRotated(adh, adh.v + (IF prev_cls THEN 1 ELSE -1) * adh.angle, c)

\* The halfspace at b: n = (rot90 * (b - pivot.b)).normalize(), the direction a
\* quarter turn ahead of b on the arc.
BsHalfspace(adh, b) == [b |-> b, n |-> ArcPoint(b.turned + BsQuarter)]

\* A variant of the final step that is content with a WithinMode sample alone.
BsFinishWithoutX(adh, res) ==
    IF adh.n_iter = 0 /\ ~(adh.t # << >>)
    THEN [adherer |-> adh, classifier |-> res.classifier,
          ok |-> FALSE, sample |-> res.sample, err |-> "BoundaryLost"]
    ELSE [adherer |-> [adh EXCEPT
                          !.state = IF adh.n_iter = 0
                                    THEN FoundBoundary(BsHalfspace(adh, adh.t[1]))
                                    ELSE @,
                          !.samples = Append(adh.samples, res.sample)],
          classifier |-> res.classifier,
          ok |-> TRUE, sample |-> res.sample, err |-> "none"]

\* A variant of the final step that takes b from the OutOfMode sample.
BsFinishAtX(adh, res) ==
    IF adh.n_iter = 0 /\ ~(adh.t # << >> /\ adh.x # << >>)
    THEN [adherer |-> adh, classifier |-> res.classifier,
          ok |-> FALSE, sample |-> res.sample, err |-> "BoundaryLost"]
    ELSE [adherer |-> [adh EXCEPT
                          !.state = IF adh.n_iter = 0
                                    THEN FoundBoundary(BsHalfspace(adh, adh.x[1]))
                                    ELSE @,
                          !.samples = Append(adh.samples, res.sample)],
          classifier |-> res.classifier,
          ok |-> TRUE, sample |-> res.sample, err |-> "none"]

\* sample_next, from `if self.n_iter == 0`: with both t and x the state becomes
\* FoundBoundary at t, with one of them missing BoundaryLost is returned;
\* otherwise the sample is pushed and returned.
BsFinish(adh, res) ==
    IF adh.n_iter = 0 /\ ~(adh.t # << >> /\ adh.x # << >>)
    THEN [adherer |-> adh, classifier |-> res.classifier,
          ok |-> FALSE, sample |-> res.sample, err |-> "BoundaryLost"]
    ELSE [adherer |-> [adh EXCEPT
                          !.state = IF adh.n_iter = 0
                                    THEN FoundBoundary(BsHalfspace(adh, adh.t[1]))
                                    ELSE @,
                          !.samples = Append(adh.samples, res.sample)],
          classifier |-> res.classifier,
          ok |-> TRUE, sample |-> res.sample, err |-> "none"]

\* sample_next after take_sample / take_initial_sample returned t: `?` returns
\* the classifier's error.
BsAfterSample(t) ==
    IF ~t.res.ok
    THEN [adherer |-> t.adherer, classifier |-> t.res.classifier,
          ok |-> FALSE, sample |-> t.res.sample, err |-> t.res.err,
          overflow |-> FALSE]
    ELSE BsFinish(t.adherer, t.res) @@ [overflow |-> t.overflow]

\* BinarySearchAdherer::sample_next: [adherer, classifier, ok, sample, err,
\* overflow], overflow telling that n_iter was decremented from 0.
BsSampleNext(adh, c) ==
    With(IF adh.prev_cls # << >> THEN BsTakeSample(adh, adh.prev_cls[1], c)
         ELSE BsTakeInitialSample(adh, c),
         BsAfterSample)

\* BinarySearchAdhererFactory::adhere_from
BsAdhereFrom(f, hs, v) == BinarySearchAdhererNew(hs, v, f.init_angle, f.n_iter)

-----------------------------------------------------------------------------
(* binary_surface_search.  Every point it computes lies on the line        *)
(* through the pair (t, x), so a point is kept as its position along that  *)
(* line from t towards x, in ticks, and a vector along the line as its     *)
(* signed length.                                                          *)

\* The point at the position pos of the line.
LinePoint(pos) == [along |-> pos]

\* s.normalize() for a vector along the line: the unit vector of its sense,
\* NaN for the zero vector.
LineNormalize(s) ==
    CASE s > 0 -> 1
      [] s < 0 -> -1
      [] s = 0 -> NaNVec

\* binary_surface_search, lines 20-23: the frame before the loop.
BssStart(max_err, b_pair, max_samples) ==
    [p_t |-> b_pair.t.along,
     p_x |-> b_pair.x.along,
     s |-> b_pair.x.along - b_pair.t.along,
     i |-> 0,
     max_err |-> max_err,
     max_samples |-> max_samples]

\* A variant of the loop condition that goes on at s.norm() = max_err.
BssContinueAtErr(f) == Abs(f.s) >= f.max_err /\ f.i < f.max_samples

\* The loop condition: s.norm() > max_err && i < max_samples
BssContinue(f) == Abs(f.s) > f.max_err /\ f.i < f.max_samples

\* Lines 26-27: s = (p_x - p_t) / 2.0; i += 1
BssHalve(f) == [f EXCEPT !.s = Half(f.p_x - f.p_t), !.i = f.i + 1]

\* A variant of the match that moves the wrong end.
BssNarrowSwapped(f, sample) ==
    IF sample.cls THEN [f EXCEPT !.p_x = f.p_x - f.s]
    ELSE [f EXCEPT !.p_t = f.p_t + f.s]

\* Lines 29-32, the match: WithinMode moves p_t, OutOfMode moves p_x.
BssNarrow(f, sample) ==
    IF sample.cls THEN [f EXCEPT !.p_t = f.p_t + f.s]
    ELSE [f EXCEPT !.p_x = f.p_x - f.s]

\* Line 29 after classify answered r: `?` returns the error.
BssClassified(f, r) ==
    IF ~r.ok THEN [frame |-> f, res |-> r]
    ELSE [frame |-> BssNarrow(f, r.sample), res |-> r]

\* Classify the midpoint p_t + s of the frame.
BssSample(f, c) ==
    With(Classify(c, LinePoint(f.p_t + f.s)), LAMBDA r : BssClassified(f, r))

\* One pass of the loop body, lines 26-32: [frame, res].
BssIterate(f, c) == With(BssHalve(f), LAMBDA f2 : BssSample(f2, c))

\* Lines 35-45, after the loop: MaxSamplesExceeded, or the halfspace at p_t.
BssResult(f) ==
    IF f.i >= f.max_samples /\ Abs(f.s) > f.max_err
    THEN [kind |-> "err", err |-> "MaxSamplesExceeded"]
    ELSE [kind |-> "hs", hs |-> [b |-> LinePoint(f.p_t), n |-> LineNormalize(f.s)]]

-----------------------------------------------------------------------------
(* RemoteClassifier and SembasSession (src/src/api.rs).  The variable      *)
(* stream is the TCP connection: tx lists the writes of the server (one    *)
(* entry per write_all), rx the reads it made together with what the       *)
(* client had sent for them.  A write is handed to the socket and does not *)
(* fail; a read finds what the client sent, or the end of the stream once  *)
(* the client has closed it.                                               *)

\* The control messages of prelude::messagse.
MSG_OK == "OK"

MSG_END == "end"

MSG_CONTINUE == "CONT"

BUFFER_CONFIG_SIZE == 8

\* Domain::normalized(): low = zeros, high = repeat(1.0).
Normalized == [low |-> Zeros, high |-> [k \in Axes |-> 1]]

\* A write of text and a write of raw bytes, as tx keeps them.
TextWrite(text) == [text |-> text, bytes |-> << >>]

BytesWrite(bytes) == [text |-> "", bytes |-> bytes]

\* stream.write_all(..) followed by stream.flush().
WriteAll(s, w) == [s EXCEPT !.tx = Append(@, w)]

\* A read of the server, as rx keeps it: the call, the data it consumed and
\* the number of writes made before it.
ReadOf(s, call, data) ==
    [s EXCEPT !.rx = Append(@, [call |-> call, data |-> data, after |-> Len(s.tx)])]

\* The connection right after listener.accept().
Accepted == [tx |-> << >>, rx |-> << >>]

\* usize::from_be_bytes(buffer): the most significant byte first.
RECURSIVE FromBeBytes(_)
FromBeBytes(buffer) ==
    IF buffer = << >> THEN 0
    ELSE FromBeBytes(SubSeq(buffer, 1, Len(buffer) - 1)) * 256 + buffer[Len(buffer)]

\* The bytes of an f64 in memory on a little-endian machine (IEEE-754:
\* sign, exponent 0x3FF for 1.0 and 0x400 for 2.0, empty mantissa).
F64Bytes(x) ==
    CASE x = 0 -> <<0, 0, 0, 0, 0, 0, 0, 0>>
      [] x = 1 -> <<0, 0, 0, 0, 0, 0, 240, 63>>
      [] x = 2 -> <<0, 0, 0, 0, 0, 0, 0, 64>>
      [] x = -1 -> <<0, 0, 0, 0, 0, 0, 240, 191>>

\* bytemuck::cast_slice(p.as_slice()): the coordinates one after the other.
RECURSIVE CastSliceTo(_, _)
CastSliceTo(p, k) == IF k = 0 THEN << >> ELSE CastSliceTo(p, k - 1) \o F64Bytes(p[k])

CastSlice(p) == CastSliceTo(p, N)

\* The characters str::trim removes among those a client sends.
IsWhitespace(ch) == ch \in {" ", "\n", "\r", "\t"}

RECURSIVE TrimStart(_)
TrimStart(cs) ==
    IF cs # << >> /\ IsWhitespace(Head(cs)) THEN TrimStart(Tail(cs)) ELSE cs

RECURSIVE TrimEnd(_)
TrimEnd(cs) ==
    IF cs # << >> /\ IsWhitespace(cs[Len(cs)])
    THEN TrimEnd(SubSeq(cs, 1, Len(cs) - 1)) ELSE cs

\* The String of a sequence of characters.
RECURSIVE StringOf(_)
StringOf(cs) == IF cs = << >> THEN "" ELSE Head(cs) \o StringOf(Tail(cs))

\* line.trim().to_string()
Trim(cs) == StringOf(TrimEnd(TrimStart(cs)))

\* RemoteClassifier::send_msg(msg); no message of the model holds a newline.
SendMsg(s, msg) == WriteAll(s, TextWrite(msg \o "\n"))

\* The position of the first newline among the bytes cs, 0 if there is none.
RECURSIVE NewlineAt(_, _)
NewlineAt(cs, i) ==
    IF i > Len(cs) THEN 0 ELSE IF cs[i] = "\n" THEN i ELSE NewlineAt(cs, i + 1)

\* BufReader::new(&mut self.stream) followed by reader.read_line(&mut line),
\* arrived being the bytes the reader took from the connection into its
\* buffer: the line ends with the first newline (or with the stream), and
\* the bytes buffered after it are dropped with the reader.
ReadLine(arrived) ==
    LET k == NewlineAt(arrived, 1)
    IN  IF k = 0 THEN [line |-> arrived, dropped |-> << >>]
        ELSE [line |-> SubSeq(arrived, 1, k),
              dropped |-> SubSeq(arrived, k + 1, Len(arrived))]

\* RemoteClassifier::receive_msg(): the reader takes the bytes arrived from
\* the connection (nothing at the end of the stream) and the line is trimmed.
ReceiveMsg(s, arrived) ==
    [stream |-> ReadOf(s, "read_line", arrived), msg |-> Trim(ReadLine(arrived).line)]

\* RemoteClassifier::new(stream)
RemoteClassifierNew(s) ==
    [classifier |-> [kind |-> "Remote", domain |-> Normalized],
     stream |-> SendMsg(s, MSG_OK)]

\* RemoteClassifier::bind(addr) once the client has connected; config is what
\* the client sent before the server's read (fewer than 8 bytes if it then
\* closed the connection).
RemoteBindAlwaysOk(config) ==
    LET s == ReadOf(Accepted, "read_exact", config)
        made == RemoteClassifierNew(s)
    IN  [ok |-> TRUE, classifier |-> made.classifier, stream |-> made.stream, err |-> "none"]

RemoteBind(config) ==
    LET s == ReadOf(Accepted, "read_exact", config)
    IN  IF Len(config) < BUFFER_CONFIG_SIZE
        THEN [ok |-> FALSE, classifier |-> [kind |-> "None"], stream |-> s,
              err |-> "UnexpectedEof"]
        ELSE IF FromBeBytes(config) # N
        THEN [ok |-> FALSE, classifier |-> [kind |-> "None"],
              stream |-> WriteAll(s, TextWrite(ToString(N) \o "\n")),
              err |-> "InvalidInput"]
        ELSE LET made == RemoteClassifierNew(s)
             IN  [ok |-> TRUE, classifier |-> made.classifier, stream |-> made.stream,
                  err |-> "none"]

\* impl Drop for RemoteClassifier
RemoteDropSilent(s) == s

RemoteDrop(s) == SendMsg(s, MSG_END)

\* The result of a classify call on the connection.
RemoteOk(s, sample) == [stream |-> s, ok |-> TRUE, sample |-> sample, err |-> "none"]

RemoteErr(s, e) == [stream |-> s, ok |-> FALSE, sample |-> FromClass(NaNVec, FALSE), err |-> e]

\* impl Classifier for RemoteClassifier: classify(p); reply is what the client
\* sent for the read of the class, << >> at the end of the stream.
RemoteClassifyByte(rc, s, p, reply) ==
    IF ~Contains(rc.domain, p) THEN RemoteErr(s, "OutOfBounds")
    ELSE LET sent == WriteAll(s, BytesWrite(CastSlice(p)))
             got == ReadOf(sent, "read_exact", reply)
         IN  IF reply = << >> THEN RemoteErr(got, "InvalidClassifierResponse")
             ELSE RemoteOk(got, FromClass(p, reply[1] >= 1))

RemoteClassify(rc, s, p, reply) ==
    IF ~Contains(rc.domain, p) THEN RemoteErr(s, "OutOfBounds")
    ELSE LET sent == WriteAll(s, BytesWrite(CastSlice(p)))
             got == ReadOf(sent, "read_exact", reply)
         IN  IF reply = << >> THEN RemoteErr(got, "InvalidClassifierResponse")
             ELSE IF reply[1] > 1 THEN RemoteErr(got, "InvalidClassifierResponse")
             ELSE RemoteOk(got, FromClass(p, reply[1] = 1))

\* SembasSession::send_phase
SendPhase(sess, s) == SendMsg(s, sess.phase)

\* SembasSession::new(classifier, initial_phase)
SembasSessionNew(rc, s, initial_phase) ==
    LET sess == [kind |-> "Session", classifier |-> rc, state |-> "Messaging",
                 phase |-> initial_phase]
    IN  [session |-> sess, stream |-> SendPhase(sess, s)]

\* SembasSession::update_phase
UpdatePhase(sess, phase) == [sess EXCEPT !.phase = phase]

\* What a call on the session leaves: the session, the connection and the
\* value returned (or the panic).
SessionRet(sess, s, r) == [session |-> sess, stream |-> s, ret |-> r]

MsgRet(m) == [kind |-> "msg", msg |-> m]

PanicRet(where) == [kind |-> "panic", at |-> where]

ClassifyRet(r) ==
    IF r.ok THEN [kind |-> "ok", sample |-> r.sample] ELSE [kind |-> "err", err |-> r.err]

\* SembasSession::receive_msg
SessionReceiveMsg(sess, s, line) ==
    LET got == ReceiveMsg(SendPhase(sess, s), line)
    IN  IF got.msg = MSG_CONTINUE
        THEN SessionRet([sess EXCEPT !.state = "Requesting"], got.stream, MsgRet(<< >>))
        ELSE SessionRet(sess, got.stream, MsgRet(<<got.msg>>))

\* SembasSession::expect_msg
ExpectMsgAlwaysReads(sess, s, line) == SessionReceiveMsg(sess, s, line)

ExpectMsg(sess, s, line) ==
    CASE sess.state = "Messaging" -> SessionReceiveMsg(sess, s, line)
      [] sess.state = "Incomplete" -> SessionRet(sess, s, MsgRet(<< >>))
      [] sess.state = "Requesting" -> SessionRet(sess, s, PanicRet("expect_msg"))

\* A variant of direct_msg that takes any line for the continue signal.
DirectMsgLenient(sess, s, line) ==
    IF sess.state # "Messaging" THEN SessionRet(sess, s, PanicRet("direct_msg"))
    ELSE SessionRet(sess, ReceiveMsg(s, line).stream, MsgRet(<< >>))

\* SembasSession::direct_msg
DirectMsg(sess, s, line) ==
    IF sess.state # "Messaging" THEN SessionRet(sess, s, PanicRet("direct_msg"))
    ELSE LET got == ReceiveMsg(s, line)
         IN  IF got.msg = MSG_CONTINUE
             THEN SessionRet(sess, got.stream, MsgRet(<< >>))
             ELSE SessionRet(sess, got.stream, MsgRet(<<got.msg>>))

\* A variant that leaves the session in Messaging whatever the result.
AfterRequestMessaging(sess, r) ==
    SessionRet([sess EXCEPT !.state = "Messaging"], r.stream, ClassifyRet(r))

\* The end of new_request: the state after the result of the classifier.
AfterRequest(sess, r) ==
    SessionRet([sess EXCEPT !.state = IF ~r.ok /\ r.err = "OutOfBounds"
                                      THEN "Incomplete" ELSE "Messaging"],
               r.stream, ClassifyRet(r))

\* A variant that writes no phase line on a Requesting session.
NewRequestUnannounced(sess, s, p, line, reply) ==
    IF sess.state = "Requesting"
    THEN AfterRequest(sess, RemoteClassify(sess.classifier, s, p, reply))
    ELSE LET s1 == SendPhase(sess, s)
             m == DirectMsg(sess, s1, line)
         IN  IF sess.state = "Incomplete"
             THEN SessionRet(sess, s1, PanicRet("new_request: Incomplete"))
             ELSE IF m.ret.msg # << >>
             THEN SessionRet(sess, m.stream, PanicRet("new_request: no CONTINUE"))
             ELSE AfterRequest(sess, RemoteClassify(sess.classifier,
                                                    SendPhase(sess, m.stream), p, reply))

\* SembasSession::new_request
NewRequest(sess, s, p, line, reply) ==
    LET s1 == SendPhase(sess, s)
    IN  CASE sess.state = "Messaging" ->
               LET m == DirectMsg(sess, s1, line)
               IN  IF m.ret.msg # << >>
                   THEN SessionRet(sess, m.stream, PanicRet("new_request: no CONTINUE"))
                   ELSE AfterRequest(sess, RemoteClassify(sess.classifier,
                                                          SendPhase(sess, m.stream), p, reply))
          [] sess.state = "Requesting" ->
               AfterRequest(sess, RemoteClassify(sess.classifier, s1, p, reply))
          [] sess.state = "Incomplete" ->
               SessionRet(sess, s1, PanicRet("new_request: Incomplete"))

\* SembasSession::continue_request
ContinueRequest(sess, s, p, reply) ==
    IF sess.state # "Incomplete" THEN SessionRet(sess, s, PanicRet("continue_request"))
    ELSE LET r == RemoteClassify(sess.classifier, s, p, reply)
         IN  SessionRet(IF ~r.ok /\ r.err = "OutOfBounds" THEN sess
                        ELSE [sess EXCEPT !.state = "Messaging"],
                        r.stream, ClassifyRet(r))

\* impl Classifier for SembasSession: classify(p)
SessionClassifyAlwaysNew(sess, s, p, line, reply) == NewRequest(sess, s, p, line, reply)

SessionClassify(sess, s, p, line, reply) ==
    IF sess.state \in {"Messaging", "Requesting"}
    THEN NewRequest(sess, s, p, line, reply)
    ELSE ContinueRequest(sess, s, p, reply)

\* SembasSession::bind(addr, initial_phase)
SembasSessionBind(config, initial_phase) ==
    LET b == RemoteBind(config)
    IN  IF ~b.ok THEN b
        ELSE LET made == SembasSessionNew(b.classifier, b.stream, initial_phase)
             IN  [ok |-> TRUE, classifier |-> made.session, stream |-> made.stream,
                  err |-> "none"]

-----------------------------------------------------------------------------
(* MeshExplorer.                                                           *)

At(s, i) == s[i + 1]

\* A variant of dequeue that pops from the back of the Vec.
DequeueLast(q) ==
    IF q = << >> THEN [item |-> << >>, queue |-> q]
    ELSE [item |-> <<q[Len(q)]>>, queue |-> SubSeq(q, 1, Len(q) - 1)]

\* impl Queue<T> for Vec<T>
Enqueue(q, x) == Append(q, x)

\* dequeue: None on an empty Vec, else Some(self.remove(0)).
Dequeue(q) ==
    IF q = << >> THEN [item |-> << >>, queue |-> q]
    ELSE [item |-> <<Head(q)>>, queue |-> Tail(q)]

\* create_cardinals, the axes: basis_vectors (the identity) when the angle
\* between its first column and n is at most 1e-10, else rot * basis_vectors for
\* the rotation by that angle in the span of (n, first column).  A NaN n has a
\* NaN angle, which fails the comparison and gives a NaN rotation.
RotatedAxes(n, align_vector) ==
    IF IsNaN(n) THEN [i \in 1..N |-> NaNVec]
    ELSE IF Angle(align_vector, n) = 0 THEN [i \in 1..N |-> BasisColumn(i - 1)]
    ELSE With(SpanNew(n, align_vector), LAMBDA span :
            [i \in 1..N |-> Rotate(span, Angle(align_vector, n), BasisColumn(i - 1))])

\* create_cardinals, the loop over the columns 1..N-1: the column, then its negation.
CardinalsOf(axes) ==
    [j \in 1..(2 * (N - 1)) |->
        IF j % 2 = 1 THEN axes[(j + 1) \div 2 + 1] ELSE VNeg(axes[j \div 2 + 1])]

\* MeshExplorer::create_cardinals(n, basis_vectors), basis_vectors = identity.
CreateCardinals(n) == With(RotatedAxes(n, BasisColumn(0)), CardinalsOf)

\* get_next_paths_from, the map of the cardinals to paths of id.
PathsOf(id, cardinals) == [j \in 1..Len(cardinals) |-> [id |-> id, v |-> cardinals[j]]]

\* MeshExplorer::get_next_paths_from
GetNextPathsFrom(ex, id) ==
    With(CreateCardinals(At(ex.boundary, id).n), LAMBDA cardinals : PathsOf(id, cardinals))

\* A variant of the insertion that keeps one entry per location.
RTreeInsertOnce(index, node) ==
    IF \E k \in 1..Len(index) : index[k].geom = node.geom THEN index
    ELSE Append(index, node)

\* RTree::insert
RTreeInsert(index, node) == Append(index, node)

\* RTree::nearest_neighbor for a point that is not NaN: << >> on an empty tree.
NearestNeighbor(index, p) ==
    IF index = << >> THEN << >>
    ELSE <<index[CHOOSE i \in 1..Len(index) :
                \A j \in 1..Len(index) :
                    Dist2(index[i].geom, p) <= Dist2(index[j].geom, p)]>>

\* check_overlap, after the nearest-neighbour query.
OverlapWith(ex, p, nearest) ==
    IF nearest # << >> THEN DistLess(p, nearest[1].geom, ex.margin) ELSE FALSE

\* A variant of check_overlap that rejects nothing.
CheckOverlapNever(ex, p) == FALSE

\* MeshExplorer::check_overlap.  For a NaN point the distance to whatever the
\* tree returns is NaN, and NaN < margin is false.
CheckOverlap(ex, p) ==
    IF IsNaN(p) THEN FALSE
    ELSE With(NearestNeighbor(ex.knn_index, p), LAMBDA nearest : OverlapWith(ex, p, nearest))

\* The projected point of a path: *hs.b + self.d * v
Projected(ex, path) == VAdd(At(ex.boundary, path.id).b, VScale(ex.d, path.v))

\* A variant of the loop body of select_parent that gives up at the first
\* overlapping path instead of going on with the next one.
SelectPathOnce(ex, path) ==
    IF ~CheckOverlap(ex, Projected(ex, path))
    THEN [ex |-> ex,
          sel |-> <<[hs |-> At(ex.boundary, path.id), id |-> path.id, v |-> path.v]>>,
          popped |-> <<path>>]
    ELSE [ex |-> ex, sel |-> << >>, popped |-> <<path>>]

RECURSIVE SelectParent(_)

\* select_parent, the loop body for the dequeued path: return it unless its
\* projected point overlaps, else go on with the next one.
SelectPath(ex, path) ==
    IF ~With(Projected(ex, path), LAMBDA p : CheckOverlap(ex, p))
    THEN [ex |-> ex,
          sel |-> <<[hs |-> At(ex.boundary, path.id), id |-> path.id, v |-> path.v]>>,
          popped |-> <<path>>]
    ELSE [SelectParent(ex) EXCEPT !.popped = <<path>> \o @]

\* select_parent, after self.path_queue.dequeue() returned dq.
SelectDequeued(ex, dq) ==
    IF dq.item = << >> THEN [ex |-> ex, sel |-> << >>, popped |-> << >>]
    ELSE With([ex EXCEPT !.path_queue = dq.queue], LAMBDA ex2 : SelectPath(ex2, dq.item[1]))

\* MeshExplorer::select_parent: [ex, sel, popped], where sel is << >> or
\* <<[hs, id, v]>> and popped lists the paths it dequeued, in order.
SelectParent(ex) == With(Dequeue(ex.path_queue), LAMBDA dq : SelectDequeued(ex, dq))

\* Graph::add_node / Graph::add_edge
AddNode(g, hs) == [g EXCEPT !.nodes = Append(g.nodes, hs)]

AddEdge(g, src, dst) == [g EXCEPT !.edges = Append(g.edges, <<src, dst>>)]

\* MeshExplorer::add_child(hs, parent_id), parent_id = << >> or <<pid>>.
AddChild(ex, hs, parent_id) ==
    LET next_id == Len(ex.tree.nodes)
        t1 == AddNode(ex.tree, hs)
        t2 == IF parent_id # << >> THEN AddEdge(t1, parent_id[1], next_id) ELSE t1
    IN  [ex EXCEPT !.tree = t2,
                   !.path_queue = ex.path_queue \o GetNextPathsFrom(ex, next_id),
                   !.knn_index = RTreeInsert(ex.knn_index, [geom |-> hs.b, data |-> next_id])]

\* MeshExplorer::new
MeshExplorerNew(jump, root, marg, factory) ==
    AddChild([d |-> jump,
              boundary |-> <<root>>,
              margin |-> marg,
              path_queue |-> << >>,
              current_parent |-> 0,
              tree |-> [nodes |-> << >>, edges |-> << >>],
              knn_index |-> << >>,
              adherer |-> << >>,
              adherer_f |-> factory],
             root, << >>)

\* A variant of lines 171-173 without `self.adherer = None`: the adherer stays
\* in place in its FoundBoundary state.
StepFoundKeepAdherer(ex, hs) ==
    With([ex EXCEPT !.boundary = Append(ex.boundary, hs)],
         LAMBDA ex2 : [AddChild(ex2, hs, <<ex.current_parent>>) EXCEPT
                          !.adherer = <<[ex.adherer[1] EXCEPT !.state = FoundBoundary(hs)]>>])

\* What step does once an adherer has found hs: push, add_child, clear.
StepFound(ex, hs) ==
    With([ex EXCEPT !.boundary = Append(ex.boundary, hs)],
         LAMBDA ex2 : [AddChild(ex2, hs, <<ex.current_parent>>) EXCEPT !.adherer = << >>])

\* step, lines 158-163: with no adherer, select_parent; [ex, sel, popped].
StepSelect(ex) ==
    IF ex.adherer = << >> THEN SelectParent(ex)
    ELSE [ex |-> ex, sel |-> << >>, popped |-> << >>]

\* A variant of lines 159-162 that leaves current_parent as it was.
StepStartKeepParent(sp) ==
    IF sp.sel # << >>
    THEN [sp.ex EXCEPT
            !.adherer = <<AdhereFrom(sp.ex.adherer_f, sp.sel[1].hs,
                                     VScale(sp.ex.d, sp.sel[1].v))>>]
    ELSE sp.ex

\* step, lines 159-162: the selected path becomes the current parent and gets
\* an adherer from the factory.
StepStart(sp) ==
    IF sp.sel # << >>
    THEN [sp.ex EXCEPT
            !.current_parent = sp.sel[1].id,
            !.adherer = <<AdhereFrom(sp.ex.adherer_f, sp.sel[1].hs,
                                     VScale(sp.ex.d, sp.sel[1].v))>>]
    ELSE sp.ex

\* A variant of the match of step without line 185: the adherer survives its error.
StepSampledKeepAdherer(ex, r) ==
    IF r.ok
    THEN [ex |-> IF r.adherer.state.tag = "FoundBoundary"
                 THEN StepFound(ex, r.adherer.state.hs)
                 ELSE [ex EXCEPT !.adherer = <<r.adherer>>],
          classifier |-> r.classifier,
          ret |-> [kind |-> "sample", sample |-> r.sample],
          adh |-> <<[ok |-> r.ok, sample |-> r.sample, err |-> r.err]>>]
    ELSE [ex |-> [ex EXCEPT !.adherer = <<r.adherer>>],
          classifier |-> r.classifier,
          ret |-> [kind |-> "err", err |-> r.err],
          adh |-> <<[ok |-> r.ok, sample |-> r.sample, err |-> r.err]>>]

\* A variant of the match of step that puts the path of a failed adherer back
\* in the queue, in the direction the adherer had reached.
StepSampledRequeue(ex, r) ==
    IF r.ok
    THEN [ex |-> IF r.adherer.state.tag = "FoundBoundary"
                 THEN StepFound(ex, r.adherer.state.hs)
                 ELSE [ex EXCEPT !.adherer = <<r.adherer>>],
          classifier |-> r.classifier,
          ret |-> [kind |-> "sample", sample |-> r.sample],
          adh |-> <<[ok |-> r.ok, sample |-> r.sample, err |-> r.err]>>]
    ELSE [ex |-> [ex EXCEPT !.adherer = << >>,
                            !.path_queue = Enqueue(ex.path_queue,
                                                   [id |-> ex.current_parent,
                                                    v |-> r.adherer.v])],
          classifier |-> r.classifier,
          ret |-> [kind |-> "err", err |-> r.err],
          adh |-> <<[ok |-> r.ok, sample |-> r.sample, err |-> r.err]>>]

\* step, lines 166-179 and 185: the match on what sample_next returned.
StepSampled(ex, r) ==
    IF r.ok
    THEN [ex |-> IF r.adherer.state.tag = "FoundBoundary"
                 THEN StepFound(ex, r.adherer.state.hs)
                 ELSE [ex EXCEPT !.adherer = <<r.adherer>>],
          classifier |-> r.classifier,
          ret |-> [kind |-> "sample", sample |-> r.sample],
          adh |-> <<[ok |-> r.ok, sample |-> r.sample, err |-> r.err]>>]
    ELSE [ex |-> [ex EXCEPT !.adherer = << >>],
          classifier |-> r.classifier,
          ret |-> [kind |-> "err", err |-> r.err],
          adh |-> <<[ok |-> r.ok, sample |-> r.sample, err |-> r.err]>>]

\* step, lines 165-183: sample the adherer if there is one, else Ok(None).
\* [ex, classifier, ret, adh], adh being what sample_next returned, if called.
StepAdhere(ex, c) ==
    IF ex.adherer = << >>
    THEN [ex |-> ex, classifier |-> c, ret |-> [kind |-> "none"], adh |-> << >>]
    ELSE With(ConstSampleNext(ex.adherer[1], c), LAMBDA r : StepSampled(ex, r))

\* MeshExplorer::step
StepOp(ex, c) == StepAdhere(StepStart(StepSelect(ex)), c)

-----------------------------------------------------------------------------
(* binary_search_between and find_opposing_boundary                        *)
(* (src/src/search/mod.rs).  Every point they compute lies on the line     *)
(* through t0 along v, so a point is kept as its position on that line, in *)
(* ticks, with t0 at 0 (see LinePoint); v is the unit vector 1 or -1 of    *)
(* the line.  The other coordinates of t0 lie strictly inside the domain.  *)

\* The result of binary_search_between: Some(mid) as <<mid>> or None, the
\* classifier after its calls, and whether the expect on classify panicked.
BsbFound(c, mid) == [found |-> <<mid>>, classifier |-> c, panic |-> FALSE]

BsbNone(c) == [found |-> << >>, classifier |-> c, panic |-> FALSE]

BsbPanic(c) == [found |-> << >>, classifier |-> c, panic |-> TRUE]

\* Lines 65-71: the pairs to search next.
BsbEnqueue(mode, pairs, p1, mid, p2) ==
    CASE mode = "Full" -> Enqueue(Enqueue(pairs, <<p1, mid>>), <<mid, p2>>)
      [] mode = "Nearest" -> Enqueue(pairs, <<p1, mid>>)

\* The loop of binary_search_between with k iterations left.
RECURSIVE BsbLoop(_, _, _, _, _)
BsbLoop(mode, target_cls, k, pairs, c) ==
    IF k = 0 THEN BsbNone(c)
    ELSE LET dq == Dequeue(pairs)
             p1 == dq.item[1][1]
             p2 == dq.item[1][2]
             mid == p1 + Half(p2 - p1)
             r == Classify(c, LinePoint(mid))
         IN  IF ~r.ok THEN BsbPanic(r.classifier)
             ELSE IF r.sample.cls = target_cls THEN BsbFound(r.classifier, mid)
             ELSE BsbLoop(mode, target_cls, k - 1,
                          BsbEnqueue(mode, dq.queue, p1, mid, p2), r.classifier)

\* A variant that runs the loop once more than max_samples.
BinarySearchBetweenOneMore(mode, target_cls, max_samples, p1, p2, c) ==
    BsbLoop(mode, target_cls, max_samples + 1, <<<<p1, p2>>>>, c)

\* binary_search_between(mode, target_cls, max_samples, p1, p2, classifier)
BinarySearchBetween(mode, target_cls, max_samples, p1, p2, c) ==
    BsbLoop(mode, target_cls, max_samples, <<<<p1, p2>>>>, c)

\* Domain::distance_to_edge(p, v) for p + t v on the line: the quotients of
\* the line's own coordinate are (low - p) / v and (high - p) / v; on every
\* other coordinate v is 0 and p strictly inside, which gives -inf (dropped
\* by the filter) for low and +inf for high.  The result is the least
\* quotient that is >= 0, infinite when only +inf is left.
Finite(t) == [finite |-> TRUE, t |-> t]

DistanceToEdge(dom, p, v) ==
    LET t_lower == (dom.low - p) * v
        t_upper == (dom.high - p) * v
    IN  CASE t_lower >= 0 /\ t_upper >= 0 ->
               Finite(IF t_lower < t_upper THEN t_lower ELSE t_upper)
          [] t_lower >= 0 /\ t_upper < 0 -> Finite(t_lower)
          [] t_lower < 0 /\ t_upper >= 0 -> Finite(t_upper)
          [] t_lower < 0 /\ t_upper < 0 -> [finite |-> FALSE, t |-> 0]

\* dist * 0.999 for the distances of the model, multiples of 1000 ticks.
Scale999(dist) == CASE dist % 1000 = 0 -> (dist \div 1000) * 999

\* The frame of find_opposing_boundary: its arguments, t, x and t1 (Options
\* as << >> or <<pos>>), the classifier it borrows, where it stands and what
\* it returned.
FobFrame(f, pc, t, x, t1, c) ==
    [f EXCEPT !.pc = pc, !.t = t, !.x = x, !.t1 = t1, !.classifier = c]

FobStart(max_err, t0, v, domain, num_checks, num_iter, c) ==
    [pc |-> "start", max_err |-> max_err, t0 |-> t0, v |-> v, domain |-> domain,
     num_checks |-> num_checks, num_iter |-> num_iter,
     t |-> << >>, x |-> << >>, t1 |-> << >>, classifier |-> c,
     ret |-> [kind |-> "none"]]

\* Lines 110-122: the probe next to the edge of the domain and, when it is
\* OutOfMode, the search for the next target hit.  A point at an infinite
\* distance is outside of the domain of the classifier.
FobProbeEdgeIsTarget(f) ==
    LET dist == DistanceToEdge(f.domain, f.t0, f.v)
    IN  IF ~dist.finite THEN FobFrame(f, "panic", << >>, << >>, << >>, f.classifier)
        ELSE LET p == f.t0 + f.v * Scale999(dist.t)
                 r == Classify(f.classifier, LinePoint(p))
             IN  IF ~r.ok THEN FobFrame(f, "panic", << >>, << >>, << >>, r.classifier)
                 ELSE FobFrame(f, "loop", <<p>>, << >>, <<p>>, r.classifier)

FobProbe(f) ==
    LET dist == DistanceToEdge(f.domain, f.t0, f.v)
    IN  IF ~dist.finite THEN FobFrame(f, "panic", << >>, << >>, << >>, f.classifier)
        ELSE LET p == f.t0 + f.v * Scale999(dist.t)
                 r == Classify(f.classifier, LinePoint(p))
             IN  IF ~r.ok THEN FobFrame(f, "panic", << >>, << >>, << >>, r.classifier)
                 ELSE IF r.sample.cls
                 THEN FobFrame(f, "loop", <<p>>, << >>, <<p>>, r.classifier)
                 ELSE LET t == BinarySearchBetween("Nearest", TRUE, f.num_checks,
                                                   f.t0, p, r.classifier)
                      IN  IF t.panic
                          THEN FobFrame(f, "panic", << >>, <<p>>, << >>, t.classifier)
                          ELSE FobFrame(f, IF t.found = << >> THEN "match" ELSE "loop",
                                        t.found, <<p>>, t.found, t.classifier)

\* Lines 126-141: one pass of the while loop, from the search for a gap.
FobGap(f) ==
    LET gap == BinarySearchBetween("Full", FALSE, f.num_checks, f.t1[1], f.t0,
                                   f.classifier)
    IN  IF gap.panic THEN FobFrame(f, "panic", f.t, f.x, f.t1, gap.classifier)
        ELSE IF gap.found = << >> THEN FobFrame(f, "match", f.t, f.x, f.t1, gap.classifier)
        ELSE LET p == BinarySearchBetween("Nearest", TRUE, f.num_checks, f.t0,
                                          gap.found[1], gap.classifier)
             IN  IF p.panic THEN FobFrame(f, "panic", f.t, gap.found, f.t1, p.classifier)
                 ELSE IF p.found # << >>
                 THEN FobFrame(f, "loop", p.found, gap.found, p.found, p.classifier)
                 ELSE FobFrame(f, "match", <<f.t0>>, gap.found, f.t1, p.classifier)

\* binary_surface_search run to its end: the loop, then the result.
RECURSIVE BssRun(_, _)
BssRun(b, c) ==
    IF BssContinue(b)
    THEN LET it == BssIterate(b, c)
         IN  IF ~it.res.ok
             THEN [ret |-> [kind |-> "err", err |-> it.res.err],
                   classifier |-> it.res.classifier]
             ELSE BssRun(it.frame, it.res.classifier)
    ELSE [ret |-> BssResult(b), classifier |-> c]

BinarySurfaceSearch(max_err, b_pair, max_samples, c) ==
    BssRun(BssStart(max_err, b_pair, max_samples), c)

\* Lines 144-156: the match on (t, x) and the value returned.
FobDone(f, r, c) == [f EXCEPT !.pc = "done", !.classifier = c, !.ret = r]

\* A variant that returns the probe where no envelope was found.
FobMatchReturnsProbe(f) ==
    CASE f.t = << >> /\ f.x = << >> ->
           FobDone(f, [kind |-> "panic"], f.classifier)
      [] f.t = << >> /\ f.x # << >> ->
           FobDone(f, [kind |-> "ok", b |-> LinePoint(f.x[1])], f.classifier)
      [] f.t # << >> /\ f.x = << >> ->
           FobDone(f, [kind |-> "ok", b |-> LinePoint(f.t0)], f.classifier)
      [] f.t # << >> /\ f.x # << >> ->
           FobDone(f, [kind |-> "panic"], f.classifier)

FobMatch(f) ==
    CASE f.t = << >> /\ f.x = << >> ->
           FobDone(f, [kind |-> "panic"], f.classifier)
      [] f.t = << >> /\ f.x # << >> ->
           FobDone(f, [kind |-> "ok", b |-> LinePoint(f.t0)], f.classifier)
      [] f.t # << >> /\ f.x = << >> ->
           FobDone(f, [kind |-> "ok", b |-> LinePoint(f.t[1])], f.classifier)
      [] f.t # << >> /\ f.x # << >> ->
           LET hs == BinarySurfaceSearch(f.max_err,
                                         [t |-> LinePoint(f.t[1]), x |-> LinePoint(f.x[1])],
                                         f.num_iter, f.classifier)
           IN  IF hs.ret.kind = "hs"
               THEN FobDone(f, [kind |-> "ok", b |-> hs.ret.hs.b], hs.classifier)
               ELSE FobDone(f, [kind |-> "panic"], hs.classifier)

-----------------------------------------------------------------------------
(* Incremental reacquisition (src/src/boundary_tools/reacquisition.rs), on *)
(* the lattice: max_err is a whole number of lattice steps.                *)

\* What reacquire_hs_incremental returns: Ok(None), Ok(Some(hs)) or the error
\* of the classifier, with the classifier after the calls and the samples it
\* answered, in order.
ReacqOk(c, value, samples) ==
    [ok |-> TRUE, value |-> value, err |-> "none", classifier |-> c, samples |-> samples]

ReacqErr(c, e, samples) ==
    [ok |-> FALSE, value |-> << >>, err |-> e, classifier |-> c, samples |-> samples]

\* Lines 40-52: the match on (boundary_exists, domain.contains(&sample), sample).
ReacqMatchKeepsLast(hs, domain, init_cls, prev_sample, sample) ==
    IF sample.cls # init_cls THEN <<[b |-> sample.p, n |-> hs.n]>> ELSE << >>

ReacqMatch(hs, domain, init_cls, prev_sample, sample) ==
    LET boundary_exists == sample.cls # init_cls
    IN  CASE boundary_exists /\ Contains(domain, sample.p) /\ sample.cls ->
               <<[b |-> sample.p, n |-> hs.n]>>
          [] boundary_exists /\ ~(Contains(domain, sample.p) /\ sample.cls) ->
               IF prev_sample.cls THEN <<[b |-> prev_sample.p, n |-> hs.n]>> ELSE << >>
          [] OTHER -> << >>

\* Lines 31-38: the while loop, i steps made so far.
RECURSIVE ReacqWalk(_, _, _, _, _, _, _, _, _, _)
ReacqWalk(c, hs, domain, s, max_samples, init_cls, prev_sample, sample, i, samples) ==
    IF /\ (max_samples = << >> \/ i < max_samples[1])
       /\ Contains(domain, VAdd(sample.p, s))
       /\ sample.cls = init_cls
    THEN LET r == Classify(c, VAdd(sample.p, s))
         IN  IF ~r.ok THEN ReacqErr(r.classifier, r.err, samples)
             ELSE ReacqWalk(r.classifier, hs, domain, s, max_samples, init_cls,
                            sample, r.sample, i + 1, Append(samples, r.sample))
    ELSE ReacqOk(c, ReacqMatch(hs, domain, init_cls, prev_sample, sample), samples)

\* Lines 26-29: the step s and the first sample of the walk, after the
\* classifier answered first for hs.b.
ReacqFirstStep(c, hs, domain, max_err, max_samples, first) ==
    LET init_cls == first.cls
        s == VScale((IF init_cls THEN 1 ELSE -1) * max_err, hs.n)
        r == Classify(c, VAdd(first.p, s))
    IN  IF ~r.ok THEN ReacqErr(r.classifier, r.err, <<first>>)
        ELSE ReacqWalk(r.classifier, hs, domain, s, max_samples, init_cls,
                       first, r.sample, 0, <<first, r.sample>>)

\* reacquire_hs_incremental(classifier, hs, domain, max_err, max_samples)
ReacquireHsIncremental(c, hs, domain, max_err, max_samples) ==
    LET r == Classify(c, hs.b)
    IN  IF ~r.ok THEN ReacqErr(r.classifier, r.err, << >>)
        ELSE ReacqFirstStep(r.classifier, hs, domain, max_err, max_samples, r.sample)

\* (new_hs.b - hs.b).norm()
Displacement(hs, new_hs) == ISqrt(Norm2(VSub(new_hs.b, hs.b)))

\* reacquire_all_incremental, lines 76-77: the frame before the loop.  walks
\* keeps, for every halfspace done, the samples the classifier answered.
ReacquireStart(domain, max_err, samples_per_hs) ==
    [domain |-> domain, max_err |-> max_err, samples_per_hs |-> samples_per_hs,
     new_boundary |-> << >>, displacements |-> << >>, walks |-> << >>]

\* Lines 80-83: the body of the loop for the halfspace hs, after
\* reacquire_hs_incremental returned r without an error.
ReacquirePush(f, hs, r) ==
    [f EXCEPT !.new_boundary = Append(@, r.value),
              !.displacements = Append(@, IF r.value = << >> THEN << >>
                                          ELSE <<Displacement(hs, r.value[1])>>),
              !.walks = Append(@, r.samples)]

-----------------------------------------------------------------------------
(* MeshExplorer::load_boundary and MeshExplorer::backprop.                 *)

\* get_rtree_from_boundary: one entry per halfspace, its position as payload.
GetRtreeFromBoundary(b) == [i \in 1..Len(b) |-> [geom |-> b[i].b, data |-> i - 1]]

\* What load_boundary leaves behind: the explorer, and whether it panicked.
Loaded(ex) == [ex |-> ex, panic |-> FALSE]

LoadPanic(ex) == [ex |-> ex, panic |-> TRUE]

\* The panics of add_child(hs, parent_id) on the explorer ex: Graph::add_edge
\* panics when the parent is no node of the tree, and get_next_paths_from
\* indexes self.boundary (a Vec) with the id of the new node.
AddChildPanics(ex, parent_id) ==
    \/ parent_id # << >> /\ parent_id[1] > Len(ex.tree.nodes)
    \/ Len(ex.tree.nodes) >= Len(ex.boundary)

\* The explorer a panic of add_child leaves: the node (and the edge) it added
\* to the tree before.
AddChildUntilPanic(ex, hs, parent_id) ==
    LET next_id == Len(ex.tree.nodes)
        t1 == AddNode(ex.tree, hs)
    IN  [ex EXCEPT !.tree = IF parent_id # << >> /\ parent_id[1] <= next_id
                             THEN AddEdge(t1, parent_id[1], next_id) ELSE t1]

\* Lines 227-236, the parent of the halfspace hs: none while the path queue is
\* empty, else the payload of the nearest entry of the index.
LoadParent(ex, hs) ==
    IF ex.path_queue = << >> THEN << >>
    ELSE <<NearestNeighbor(ex.knn_index, hs.b)[1].data>>

RECURSIVE LoadLoop(_, _, _)

\* Lines 226-237: the for loop, from the i-th halfspace on; line 239 after it.
LoadLoop(ex, b, i) ==
    IF i > Len(b) THEN Loaded([ex EXCEPT !.boundary = b])
    ELSE With(LoadParent(ex, b[i]), LAMBDA parent_id :
            IF AddChildPanics(ex, parent_id)
            THEN LoadPanic(AddChildUntilPanic(ex, b[i], parent_id))
            ELSE LoadLoop(AddChild(ex, b[i], parent_id), b, i + 1))

\* MeshExplorer::load_boundary(boundary), boundary not empty.
LoadBoundary(ex, b) ==
    LoadLoop([ex EXCEPT !.knn_index = GetRtreeFromBoundary(b),
                        !.adherer = << >>,
                        !.path_queue = << >>], b, 1)

\* MeshExplorer::get_parent: the source of the first incoming edge, << >> for
\* a node without one.  Graph::edges_directed starts with the latest edge.
GetParent(ex, id) ==
    LET incoming == {k \in 1..Len(ex.tree.edges) : ex.tree.edges[k][2] = id}
    IN  IF incoming = {} THEN << >>
        ELSE <<ex.tree.edges[CHOOSE k \in incoming : \A j \in incoming : j <= k][1]>>

\* array_distance(a1, a2) <= m, for the margin m = num / den >= 0.
DistWithin(a1, a2, m) ==
    IF IsNaN(a1) \/ IsNaN(a2) THEN FALSE
    ELSE Dist2(a1, a2) * m.den * m.den <= m.num * m.num

RECURSIVE Gcd(_, _)
Gcd(a, b) == IF b = 0 THEN a ELSE Gcd(b, a % b)

\* x.normalize() for any vector of the lattice: a unit vector is kept as the
\* shortest lattice vector of its direction (itself when it is on the
\* lattice); the zero vector gives NaN.
Direction(x) ==
    IF IsNaN(x) \/ x = Zeros THEN NaNVec
    ELSE With(Gcd(Gcd(Abs(x[1]), Abs(x[2])), Abs(x[3])), LAMBDA g :
            [k \in Axes |-> IF x[k] >= 0 THEN x[k] \div g ELSE -((-x[k]) \div g)])

RECURSIVE SumNear(_, _, _, _)

\* Lines 257-264: the loop over the neighbours in the order of their distance,
\* up to the first one farther than margin: n and count over the entries from
\* the k-th on.
SumNear(ex, b, m, k) ==
    IF k > Len(ex.knn_index) THEN [n |-> Zeros, count |-> 0]
    ELSE With(SumNear(ex, b, m, k + 1), LAMBDA rest :
            IF DistWithin(b, ex.knn_index[k].geom, m)
            THEN [n |-> VAdd(At(ex.boundary, ex.knn_index[k].data).n, rest.n),
                  count |-> rest.count + 1]
            ELSE rest)

\* Lines 266-270: n /= count, and the parent with n.normalize().
BackpropSet(ex, id, acc) ==
    [ex EXCEPT !.boundary[id + 1].n = IF acc.count = 0 THEN NaNVec ELSE Direction(acc.n)]

\* A variant of backprop that refits the child itself.
BackpropOfChild(ex, child_id, m) ==
    IF GetParent(ex, child_id) = << >> THEN ex
    ELSE BackpropSet(ex, child_id, SumNear(ex, At(ex.boundary, child_id).b, m, 1))

\* MeshExplorer::backprop(child_id, margin)
Backprop(ex, child_id, m) ==
    With(GetParent(ex, child_id), LAMBDA parent :
        IF parent = << >> THEN ex
        ELSE BackpropSet(ex, parent[1],
                         SumNear(ex, At(ex.boundary, parent[1]).b, m, 1)))

-----------------------------------------------------------------------------
(* approx_surface (src/src/boundary_tools/estimation.rs).                  *)

RECURSIVE ApproxAdhere(_, _, _)

\* Lines 54-64: the loop on one adherer, until it has found its boundary or
\* sample_next returned an error: [ok, adherer, classifier, samples, err].
ApproxAdhere(adh, c, samples) ==
    IF adh.state = Searching
    THEN With(ConstSampleNext(adh, c), LAMBDA r :
            IF ~r.ok
            THEN [ok |-> FALSE, adherer |-> r.adherer, classifier |-> r.classifier,
                  samples |-> samples, err |-> r.err]
            ELSE ApproxAdhere(r.adherer, r.classifier, Append(samples, r.sample)))
    ELSE [ok |-> TRUE, adherer |-> adh, classifier |-> c, samples |-> samples,
          err |-> "none"]

RECURSIVE ApproxNeighbors(_, _, _, _, _, _, _)

\* Lines 52-65: the loop over the cardinals from the i-th on.
ApproxNeighbors(jump, hs, f, c, cardinals, i, acc) ==
    IF i > Len(cardinals) THEN [acc EXCEPT !.classifier = c]
    ELSE With(ApproxAdhere(AdhereFrom(f, hs, VScale(jump, cardinals[i])), c,
                           acc.all_samples),
              LAMBDA r :
                IF ~r.ok
                THEN [acc EXCEPT !.ok = FALSE, !.err = r.err,
                                 !.classifier = r.classifier, !.all_samples = r.samples]
                ELSE ApproxNeighbors(jump, hs, f, r.classifier, cardinals, i + 1,
                        [acc EXCEPT !.neighbors = Append(@, r.adherer.state.hs),
                                    !.all_samples = r.samples]))

RECURSIVE SumNormals(_, _)

\* Lines 68-73: new_n and count over the neighbours from the i-th on.
SumNormals(neighbors, i) ==
    IF i > Len(neighbors) THEN [n |-> Zeros, count |-> 0]
    ELSE With(SumNormals(neighbors, i + 1), LAMBDA rest :
            [n |-> VAdd(neighbors[i].n, rest.n), count |-> rest.count + 1])

\* Lines 75-77: new_n /= count, and the halfspace returned.  The vector
\* new_n is kept as the lattice vector num over the number den.
ApproxMean(hs, neighbors) ==
    With(SumNormals(neighbors, 1), LAMBDA m :
        [b |-> hs.b, n |-> [num |-> m.n, den |-> m.count]])

\* approx_surface(d, hs, adherer_f, classifier):
\* [ok, err, classifier, neighbors, all_samples] and, when ok, new_hs.
ApproxSurface(jump, hs, f, c) ==
    With(ApproxNeighbors(jump, hs, f, c, CreateCardinals(hs.n), 1,
                         [ok |-> TRUE, err |-> "none", classifier |-> c,
                          neighbors |-> << >>, all_samples |-> << >>]),
         LAMBDA r : [ok |-> r.ok, err |-> r.err, classifier |-> r.classifier,
                     neighbors |-> r.neighbors, all_samples |-> r.all_samples,
                     new_hs |-> IF r.ok THEN <<ApproxMean(hs, r.neighbors)>> ELSE << >>])

-----------------------------------------------------------------------------
(* Domain::distance_to_edge on the lattice (src/src/structs/mod.rs).  The  *)
(* components of v are whole numbers that divide 2, so a quotient is kept  *)
(* as twice its value, t2, or as one of the f64 values inf, -inf and NaN.  *)

\* a / b on f64: x / 0 is inf or -inf by the sign of x, and 0 / 0 is NaN.
Quotient(a, b) ==
    CASE b > 0 /\ (2 * a) % b = 0 -> [kind |-> "num", t2 |-> (2 * a) \div b]
      [] b < 0 /\ (2 * a) % (-b) = 0 -> [kind |-> "num", t2 |-> -((2 * a) \div (-b))]
      [] b = 0 /\ a > 0 -> [kind |-> "inf", t2 |-> 0]
      [] b = 0 /\ a < 0 -> [kind |-> "-inf", t2 |-> 0]
      [] b = 0 /\ a = 0 -> [kind |-> "nan", t2 |-> 0]

\* (bound - p).component_div(v)
ComponentDiv(bound, p, v) == [k \in Axes |-> Quotient(bound[k] - p[k], v[k])]

\* The filter |xi| xi >= 0.0: NaN and the negative values fail it, -0.0 passes.
NonNegative(q) == q.kind = "inf" \/ (q.kind = "num" /\ q.t2 >= 0)

\* a < b for two values that passed the filter.
QuotientLess(a, b) ==
    CASE a.kind = "inf" -> FALSE
      [] b.kind = "inf" -> TRUE
      [] OTHER -> a.t2 < b.t2

RECURSIVE MinNonNegative(_, _, _)

\* .filter(..).min_by(partial_cmp): None as << >>, else the first least value
\* among the components from the k-th on, best being the least so far.
MinNonNegative(ts, k, best) ==
    IF k > N THEN best
    ELSE MinNonNegative(ts, k + 1,
            IF ~NonNegative(ts[k]) THEN best
            ELSE IF best = << >> THEN <<ts[k]>>
            ELSE IF QuotientLess(ts[k], best[1]) THEN <<ts[k]>> ELSE best)

\* Domain::distance_to_edge(p, v): [ok, t], t being the quotient returned.
DomainDistanceToEdge(dom, p, v) ==
    LET l == MinNonNegative(ComponentDiv(dom.low, p, v), 1, << >>)
        u == MinNonNegative(ComponentDiv(dom.high, p, v), 1, << >>)
    IN  CASE l = << >> /\ u # << >> -> [ok |-> TRUE, t |-> u[1]]
          [] l # << >> /\ u = << >> -> [ok |-> TRUE, t |-> l[1]]
          [] l # << >> /\ u # << >> ->
               [ok |-> TRUE, t |-> IF QuotientLess(u[1], l[1]) THEN u[1] ELSE l[1]]
          [] l = << >> /\ u = << >> -> [ok |-> FALSE, t |-> [kind |-> "nan", t2 |-> 0]]

-----------------------------------------------------------------------------
(* The explorer's state machine: MeshExplorer::new, then step after step.  *)

\* The lattice points with coordinates in 0..GridMax.
Grid == [Axes -> 0..GridMax]

\* Domain::new(p1, p2) with p1 <= p2
Boxes == {[low |-> lo, high |-> hi] : <<lo, hi>> \in
             {x \in Grid \X Grid : \A k \in Axes : x[1][k] <= x[2][k]}}

\* The box 0..GridMax in every dimension (the role of Domain::normalized()).
WholeGrid == [low |-> Zeros, high |-> [k \in Axes |-> GridMax]]

Domains == {<< >>, <<WholeGrid>>}

Cubes == {[kind |-> "Cube", shape |-> sh, domain |-> dom, calls |-> 0] :
             sh \in Boxes, dom \in Domains}

Spheres == {[kind |-> "Sphere", center |-> ce, radius2 |-> r2, domain |-> dom, calls |-> 0] :
               ce \in Grid, r2 \in 0..GridMax, dom \in Domains}

TestClassifiers ==
    {[kind |-> "OobTest", i |-> 0, limit |-> l, calls |-> 0] : l \in 0..MaxLimit}
        \cup {[kind |-> "BleTest", calls |-> 0]}

\* The unit vectors along the axes, in both senses.
UnitVectors == {BasisColumn(i) : i \in 0..(N - 1)} \cup {VNeg(BasisColumn(i)) : i \in 0..(N - 1)}

\* The root's b: the centre of the lattice.
RootB == [k \in Axes |-> 1]

Roots == {[b |-> RootB, n |-> n] : n \in UnitVectors}

\* The envelopes respect the halfspace invariant: the root's b is WithinMode.
Classifiers ==
    {c \in Cubes \cup Spheres :
        ClassifyImpl(c, RootB).ok /\ ClassifyImpl(c, RootB).sample.cls}
        \cup TestClassifiers

\* ConstantAdhererFactory::new(delta_angle, max_rotation), angles in degrees.
Factories == {[delta_angle |-> 90, max_rotation |-> m] : m \in {<< >>}}

\* d = 1 lattice step and 0 < margin < d.
Margins == {[num |-> 9, den |-> 10]}

Explorer ==
    [d |-> d, boundary |-> boundary, margin |-> margin, path_queue |-> path_queue,
     current_parent |-> current_parent, tree |-> tree, knn_index |-> knn_index,
     adherer |-> adherer, adherer_f |-> adherer_f]

InitLog(ex) ==
    [enqueued |-> ex.path_queue,
     dequeued |-> << >>,
     started |-> << >>,
     active |-> << >>,
     found_by |-> <<[id |-> -1]>>,
     adh |-> << >>,
     nones |-> 0]

Init ==
    \E c \in Classifiers, root \in Roots, m \in Margins, f \in Factories :
        LET ex == MeshExplorerNew(1, root, m, f)
        IN  /\ classifier = c
            /\ d = ex.d
            /\ margin = ex.margin
            /\ boundary = ex.boundary
            /\ path_queue = ex.path_queue
            /\ current_parent = ex.current_parent
            /\ tree = ex.tree
            /\ knn_index = ex.knn_index
            /\ adherer = ex.adherer
            /\ adherer_f = ex.adherer_f
            /\ search = << >>
            /\ stream = << >>
            /\ ret = [kind |-> "new"]
            /\ log = InitLog(ex)

\* The outcomes of the nearest-neighbour queries select_parent makes for the
\* paths it dequeued: a query at a NaN point on a tree of two or more entries
\* compares NaN distances inside the RTree, which may panic.
LookupPanics(ex, popped) ==
    IF Len(ex.knn_index) >= 2 /\ \E i \in 1..Len(popped) : IsNaN(Projected(ex, popped[i]))
    THEN BOOLEAN ELSE {FALSE}

\* The path of the adherer select_parent started, as the history keeps it.
Started(ex, path) ==
    [id |-> path.id, v |-> path.v, p |-> Projected(ex, path), known |-> Len(ex.boundary)]

\* The history after a step of the explorer ex, in which select_parent returned
\* sp and the step ended as r.
StepLog(ex, sp, r) ==
    [enqueued |-> IF Len(r.ex.boundary) > Len(ex.boundary)
                  THEN log.enqueued \o GetNextPathsFrom(r.ex, Len(ex.boundary))
                  ELSE log.enqueued,
     dequeued |-> log.dequeued \o sp.popped,
     started |-> IF sp.sel # << >>
                 THEN Append(log.started, Started(ex, sp.popped[Len(sp.popped)]))
                 ELSE log.started,
     active |-> IF r.ex.adherer = << >> THEN << >>
                ELSE IF sp.sel # << >> THEN <<Started(ex, sp.popped[Len(sp.popped)])>>
                ELSE log.active,
     found_by |-> IF Len(r.ex.boundary) > Len(ex.boundary)
                  THEN Append(log.found_by,
                              IF sp.sel # << >> THEN Started(ex, sp.popped[Len(sp.popped)])
                              ELSE log.active[1])
                  ELSE log.found_by,
     adh |-> r.adh,
     nones |-> IF r.ret.kind = "none" THEN (IF log.nones < 2 THEN log.nones + 1 ELSE 2)
               ELSE 0]

\* One call of explorer.step(&mut classifier) by the driver.
Step ==
    /\ ret.kind # "panic"
    /\ Len(boundary) < MaxBoundary
    /\ \E sp \in {StepSelect(Explorer)} :
       \E ex1 \in {StepStart(sp)} :
       \E r \in {StepAdhere(ex1, classifier)} :
       \E panics \in LookupPanics(Explorer, sp.popped) :
          IF panics
          THEN /\ ret' = [kind |-> "panic"]
               /\ UNCHANGED <<classifier, d, margin, boundary, path_queue,
                              current_parent, tree, knn_index, adherer,
                              adherer_f, search, stream, log>>
          ELSE /\ classifier' = r.classifier
               /\ boundary' = r.ex.boundary
               /\ path_queue' = r.ex.path_queue
               /\ current_parent' = r.ex.current_parent
               /\ tree' = r.ex.tree
               /\ knn_index' = r.ex.knn_index
               /\ adherer' = r.ex.adherer
               /\ ret' = r.ret
               /\ log' = StepLog(Explorer, sp, r)
               /\ UNCHANGED <<d, margin, adherer_f, search, stream>>

Next == Step

Spec == Init /\ [][Next]_vars

\* The driver calls step again and again: a step that can be taken is taken.
FairSpec == Init /\ [][Next]_vars /\ WF_vars(Step)

-----------------------------------------------------------------------------
(* A driver that steps a MeshExplorer, refits it with backprop and loads   *)
(* boundaries into it.  The lattice holds the steps of the explorer only   *)
(* while every n is a unit vector along an axis, so the driver steps on    *)
(* only then.                                                              *)

\* The margins of backprop, in jump distances: 1.5 is the one of the test.
BackpropMargins == {[num |-> 0, den |-> 1], [num |-> 1, den |-> 1], [num |-> 3, den |-> 2]}

\* The boundaries to load: one or two halfspaces around the centre.
LoadBoundaries ==
    {<<[b |-> RootB, n |-> BasisColumn(0)]>>,
     <<[b |-> RootB, n |-> BasisColumn(1)], [b |-> VAdd(RootB, BasisColumn(0)), n |-> BasisColumn(1)]>>}

\* The driver's latest call of backprop or load_boundary, and the number of
\* such calls so far.
Driver(op, arg, m, calls) == <<[op |-> op, arg |-> arg, margin |-> m, calls |-> calls]>>

\* The envelopes of the driver: the boxes between a corner or the centre of
\* the lattice and its centre or the opposite corner.
DriverClassifiers ==
    {c \in Cubes : /\ c.domain = <<WholeGrid>>
                   /\ c.shape.low \in {Zeros, RootB}
                   /\ c.shape.high \in {RootB, WholeGrid.high}}

\* The roots of the driver's explorers.
DriverRoots ==
    {[b |-> RootB, n |-> n] : n \in {BasisColumn(0), BasisColumn(1), VNeg(BasisColumn(2))}}

InitMX ==
    \E c \in DriverClassifiers, root \in DriverRoots, m \in Margins, f \in Factories :
        LET ex == MeshExplorerNew(1, root, m, f)
        IN  /\ classifier = c
            /\ d = ex.d
            /\ margin = ex.margin
            /\ boundary = ex.boundary
            /\ path_queue = ex.path_queue
            /\ current_parent = ex.current_parent
            /\ tree = ex.tree
            /\ knn_index = ex.knn_index
            /\ adherer = ex.adherer
            /\ adherer_f = ex.adherer_f
            /\ search = Driver("new", << >>, << >>, 0)
            /\ stream = << >>
            /\ ret = [kind |-> "new"]
            /\ log = InitLog(ex)

StepMX ==
    /\ Len(boundary) < MaxMesh
    /\ \A i \in 1..Len(boundary) : boundary[i].n \in UnitVectors
    /\ Step

\* The outcomes of the query backprop makes for the neighbours of a parent:
\* on a tree of two or more entries, one of them at a NaN location, the RTree
\* compares NaN distances, which may panic.
NeighboursPanic(ex, child) ==
    IF /\ GetParent(ex, child) # << >>
       /\ Len(ex.knn_index) >= 2
       /\ \E k \in 1..Len(ex.knn_index) : IsNaN(ex.knn_index[k].geom)
    THEN BOOLEAN ELSE {FALSE}

\* One call of explorer.backprop(NodeIndex::new(child), r) by the driver.
BackpropCall ==
    /\ ret.kind # "panic"
    /\ search[1].calls < MaxRefits
    /\ \E child \in 0..(Len(tree.nodes) - 1), r \in BackpropMargins :
       \E ex \in {Backprop(Explorer, child, r)} :
       \E panics \in NeighboursPanic(Explorer, child) :
          /\ search' = Driver("backprop", child, r, search[1].calls + 1)
          /\ IF panics
             THEN /\ ret' = [kind |-> "panic"]
                  /\ UNCHANGED <<boundary, path_queue, current_parent, tree,
                                 knn_index, adherer>>
             ELSE /\ boundary' = ex.boundary
                  /\ path_queue' = ex.path_queue
                  /\ current_parent' = ex.current_parent
                  /\ tree' = ex.tree
                  /\ knn_index' = ex.knn_index
                  /\ adherer' = ex.adherer
                  /\ ret' = ret
    /\ UNCHANGED <<classifier, d, margin, adherer_f, stream, log>>

\* One call of explorer.load_boundary(b) by the driver.
LoadBoundaryCall ==
    /\ ret.kind # "panic"
    /\ search[1].calls < MaxRefits
    /\ \E b \in LoadBoundaries :
       \E r \in {LoadBoundary(Explorer, b)} :
          /\ boundary' = r.ex.boundary
          /\ path_queue' = r.ex.path_queue
          /\ current_parent' = r.ex.current_parent
          /\ tree' = r.ex.tree
          /\ knn_index' = r.ex.knn_index
          /\ adherer' = r.ex.adherer
          /\ search' = Driver("load", b, << >>, search[1].calls + 1)
          /\ ret' = IF r.panic THEN [kind |-> "panic"] ELSE [kind |-> "loaded"]
    /\ UNCHANGED <<classifier, d, margin, adherer_f, stream, log>>

NextMX == StepMX \/ BackpropCall \/ LoadBoundaryCall

SpecMX == InitMX /\ [][NextMX]_vars

-----------------------------------------------------------------------------
(* A call of approx_surface for a halfspace at the centre of the lattice.  *)

InitAS ==
    \E c \in Classifiers, hs \in Roots, f \in Factories :
        /\ classifier = c
        /\ boundary = <<hs>>
        /\ adherer_f = f
        /\ d = 1
        /\ ret = [kind |-> "new"]
        /\ log = [classifier |-> c]
        /\ margin = [num |-> 9, den |-> 10]
        /\ path_queue = << >>
        /\ current_parent = 0
        /\ tree = [nodes |-> << >>, edges |-> << >>]
        /\ knn_index = << >>
        /\ adherer = << >>
        /\ search = << >>
        /\ stream = << >>

\* approx_surface(d, hs, &mut adherer_f, &mut classifier)
ApproxSurfaceCall ==
    /\ ret.kind = "new"
    /\ \E r \in {ApproxSurface(d, boundary[1], adherer_f, classifier)} :
          /\ classifier' = r.classifier
          /\ ret' = IF r.ok
                    THEN [kind |-> "ok", new_hs |-> r.new_hs[1],
                          neighbors |-> r.neighbors, all_samples |-> r.all_samples]
                    ELSE [kind |-> "err", err |-> r.err]
    /\ UNCHANGED <<d, margin, boundary, path_queue, current_parent, tree,
                   knn_index, adherer, adherer_f, search, stream, log>>

NextAS == ApproxSurfaceCall

SpecAS == InitAS /\ [][NextAS]_vars

-----------------------------------------------------------------------------
(* A call of Domain::distance_to_edge on the lattice box, from a point in  *)
(* the box, on its border or one step outside of it.                       *)

RayPoints == [Axes -> -1..(GridMax + 1)]

RayVectors == [Axes -> {-2, -1, 0, 1, 2}]

InitDE ==
    \E p \in RayPoints, v \in RayVectors :
        /\ search = <<[domain |-> WholeGrid, p |-> p, v |-> v]>>
        /\ ret = [kind |-> "new"]
        /\ log = [op |-> "distance_to_edge"]
        /\ classifier = [kind |-> "none", calls |-> 0]
        /\ boundary = << >>
        /\ d = 1
        /\ margin = [num |-> 9, den |-> 10]
        /\ path_queue = << >>
        /\ current_parent = 0
        /\ tree = [nodes |-> << >>, edges |-> << >>]
        /\ knn_index = << >>
        /\ adherer = << >>
        /\ adherer_f = [delta_angle |-> 90, max_rotation |-> << >>]
        /\ stream = << >>

\* domain.distance_to_edge(&p, &v)
DistanceToEdgeCall ==
    /\ ret.kind = "new"
    /\ \E r \in {DomainDistanceToEdge(search[1].domain, search[1].p, search[1].v)} :
          ret' = IF r.ok THEN [kind |-> "ok", t |-> r.t]
                 ELSE [kind |-> "err", err |-> "OutOfBounds"]
    /\ UNCHANGED <<classifier, d, margin, boundary, path_queue, current_parent,
                   tree, knn_index, adherer, adherer_f, search, stream, log>>

NextDE == DistanceToEdgeCall

SpecDE == InitDE /\ [][NextDE]_vars

-----------------------------------------------------------------------------
(* A call of binary_search_between on a line, against a classifier that    *)
(* replays a list of answers and notes the points it is asked.             *)

Tapes ==
    {[kind |-> "Tape", answers |-> a, asked |-> << >>, calls |-> 0] :
        a \in [1..MaxAnswers -> {"W", "O", "E"}]}

\* The ends of the interval, in ticks: every halving of a search is exact.
BsbEnds == {0, 2 ^ (MaxSamples + 1), -3 * 2 ^ (MaxSamples + 1)}

InitBSB ==
    \E c \in Tapes, mode \in {"Full", "Nearest"}, target_cls \in BOOLEAN,
       max_samples \in 0..MaxSamples, p1 \in BsbEnds, p2 \in BsbEnds :
        /\ classifier = c
        /\ search = <<[mode |-> mode, target_cls |-> target_cls,
                       max_samples |-> max_samples, p1 |-> p1, p2 |-> p2]>>
        /\ ret = [kind |-> "new"]
        /\ log = [classifier |-> c]
        /\ boundary = << >>
        /\ d = 1
        /\ margin = [num |-> 9, den |-> 10]
        /\ path_queue = << >>
        /\ current_parent = 0
        /\ tree = [nodes |-> << >>, edges |-> << >>]
        /\ knn_index = << >>
        /\ adherer = << >>
        /\ adherer_f = [delta_angle |-> 90, max_rotation |-> << >>]
        /\ stream = << >>

\* binary_search_between(mode, target_cls, max_samples, p1, p2, &mut classifier)
BinarySearchBetweenCall ==
    /\ ret.kind = "new"
    /\ \E r \in {BinarySearchBetween(search[1].mode, search[1].target_cls,
                                      search[1].max_samples, search[1].p1,
                                      search[1].p2, classifier)} :
          /\ classifier' = r.classifier
          /\ ret' = CASE r.panic -> [kind |-> "panic"]
                      [] ~r.panic /\ r.found # << >> -> [kind |-> "some", p |-> r.found[1]]
                      [] ~r.panic /\ r.found = << >> -> [kind |-> "none"]
    /\ UNCHANGED <<d, margin, boundary, path_queue, current_parent, tree,
                   knn_index, adherer, adherer_f, search, stream, log>>

NextBSB == BinarySearchBetweenCall

SpecBSB == InitBSB /\ [][NextBSB]_vars

-----------------------------------------------------------------------------
(* A ConstantAdherer on its own: new, then sample_next call after call     *)
(* against a classifier that replays a list of answers.                    *)

Scripts ==
    {[kind |-> "Script", answers |-> a, calls |-> 0] :
        a \in [1..MaxAnswers -> {"W", "O", "E"}]}

\* max_rotation: None, or Some(angle) in degrees.
MaxRotations == {<< >>, <<90>>, <<270>>}

\* delta_angle in degrees: a quarter turn or a half turn.
DeltaAngles == {90, 180}

\* The displacements v from the pivot: the unit vectors orthogonal to its n.
InSurface(pivot) == {v \in UnitVectors : Dot(v, pivot.n) = 0}

InitCA ==
    \E c \in Scripts, pivot \in Roots, m \in MaxRotations, da \in DeltaAngles :
    \E v \in InSurface(pivot) :
        /\ classifier = c
        /\ adherer = <<ConstantAdhererNew(pivot, v, da, m)>>
        /\ ret = [kind |-> "new"]
        /\ log = [samples |-> << >>]
        /\ boundary = <<pivot>>
        /\ d = 1
        /\ margin = [num |-> 9, den |-> 10]
        /\ path_queue = << >>
        /\ current_parent = 0
        /\ tree = [nodes |-> << >>, edges |-> << >>]
        /\ knn_index = << >>
        /\ adherer_f = [delta_angle |-> da, max_rotation |-> m]
        /\ search = << >>
        /\ stream = << >>

\* One call of adherer.sample_next(&mut classifier).  The adherer is dropped
\* by its user once it returned an error or left the Searching state.
SampleNext ==
    /\ adherer # << >>
    /\ ret.kind # "err"
    /\ adherer[1].state = Searching
    /\ classifier.answers # << >>
    /\ \E r \in {ConstSampleNext(adherer[1], classifier)} :
          /\ adherer' = <<r.adherer>>
          /\ classifier' = r.classifier
          /\ ret' = IF r.ok THEN [kind |-> "sample", sample |-> r.sample]
                    ELSE [kind |-> "err", err |-> r.err]
          /\ log' = [samples |-> IF r.ok THEN Append(log.samples, r.sample)
                                 ELSE log.samples]
    /\ UNCHANGED <<d, margin, boundary, path_queue, current_parent, tree,
                   knn_index, adherer_f, search, stream>>

NextCA == SampleNext

SpecCA == InitCA /\ [][NextCA]_vars

-----------------------------------------------------------------------------
(* A BinarySearchAdherer on its own: new, then sample_next call after call *)
(* against a classifier that replays a list of answers or whose class      *)
(* changes once along the arc.                                             *)

Arcs ==
    {[kind |-> "Arc", last |-> l, within_low |-> w, calls |-> 0] :
        l \in (-2 * BsQuarter)..(2 * BsQuarter), w \in BOOLEAN}

\* init_angle in ticks: 90 and 45 degrees.
InitAngles == {BsQuarter, BsQuarter \div 2}

\* n_iter: u32
NIters == 0..MaxNIter

\* The pivot of the arc: its n is the first displacement turned a quarter.
ArcPivot == [b |-> ArcCentre, n |-> ArcPoint(BsQuarter)]

InitBS ==
    \E c \in Scripts \cup Arcs, a \in InitAngles, n \in NIters :
        /\ classifier = c
        /\ adherer = <<BinarySearchAdhererNew(ArcPivot, 0, a, n)>>
        /\ ret = [kind |-> "new"]
        /\ log = [samples |-> << >>, observed |-> << >>, n_iter |-> n, init_angle |-> a]
        /\ boundary = <<ArcPivot>>
        /\ d = 1
        /\ margin = [num |-> 9, den |-> 10]
        /\ path_queue = << >>
        /\ current_parent = 0
        /\ tree = [nodes |-> << >>, edges |-> << >>]
        /\ knn_index = << >>
        /\ adherer_f = [init_angle |-> a, n_iter |-> n]
        /\ search = << >>
        /\ stream = << >>

\* One call of adherer.sample_next(&mut classifier) on a BinarySearchAdherer;
\* the history keeps the samples it returned and those the classifier gave.
\* The adherer is dropped by its user once it returned an error or left the
\* Searching state.  Decrementing n_iter from 0 panics in a build with overflow
\* checks and wraps around in a build without.
SampleNextBS ==
    /\ adherer # << >>
    /\ ret.kind \notin {"err", "panic"}
    /\ adherer[1].state = Searching
    /\ classifier.calls < MaxAnswers
    /\ \E r \in {BsSampleNext(adherer[1], classifier)} :
       \E panics \in (IF r.overflow THEN BOOLEAN ELSE {FALSE}) :
          /\ classifier' = r.classifier
          /\ IF panics
             THEN /\ ret' = [kind |-> "panic"]
                  /\ UNCHANGED <<adherer, log>>
             ELSE /\ adherer' = <<r.adherer>>
                  /\ ret' = IF r.ok THEN [kind |-> "sample", sample |-> r.sample]
                            ELSE [kind |-> "err", err |-> r.err]
                  /\ log' = [log EXCEPT
                                !.samples = IF r.ok THEN Append(@, r.sample) ELSE @,
                                !.observed = IF r.ok \/ r.err = "BoundaryLost"
                                             THEN Append(@, r.sample) ELSE @]
    /\ UNCHANGED <<d, margin, boundary, path_queue, current_parent, tree,
                   knn_index, adherer_f, search, stream>>

NextBS == SampleNextBS

SpecBS == InitBS /\ [][NextBS]_vars

-----------------------------------------------------------------------------
(* Either adherer on its own.                                              *)

IsConstantAdherer == "delta_angle" \in DOMAIN adherer[1]

InitAdh == InitCA \/ InitBS

NextAdh ==
    \/ IsConstantAdherer /\ SampleNext
    \/ ~IsConstantAdherer /\ SampleNextBS

SpecAdh == InitAdh /\ [][NextAdh]_vars

-----------------------------------------------------------------------------
(* A call of binary_surface_search, one pass of its loop after the other.  *)

\* The distance from t to x, in ticks: every halving of a search is exact.
Deltas == {m * 2 ^ MaxSamples : m \in {1, 3}}

\* max_err, in ticks.
MaxErrs == {1, 2, 3, 5, 8}

\* The classifiers on the line that label the pair as given: t, at 0, is
\* WithinMode and x, at delta, is OutOfMode and inside the domain.
LinesFor(delta) ==
    {[kind |-> "Line", last |-> l, again |-> a, high |-> h, calls |-> 0] :
        l \in 0..(delta - 1),
        a \in {<< >>, <<delta + 1>>, <<delta + 2>>},
        h \in {delta, delta + 2 ^ MaxSamples}}

InitBSS ==
    \E delta \in Deltas, e \in MaxErrs, cap \in 0..MaxSamples :
    \E c \in LinesFor(delta) \cup Scripts :
        /\ classifier = c
        /\ search = <<BssStart(e, [t |-> LinePoint(0), x |-> LinePoint(delta)], cap)>>
        /\ stream = << >>
        /\ ret = [kind |-> "new"]
        /\ log = [t |-> LinePoint(0), x |-> LinePoint(delta)]
        /\ boundary = << >>
        /\ d = 1
        /\ margin = [num |-> 9, den |-> 10]
        /\ path_queue = << >>
        /\ current_parent = 0
        /\ tree = [nodes |-> << >>, edges |-> << >>]
        /\ knn_index = << >>
        /\ adherer = << >>
        /\ adherer_f = [delta_angle |-> 90, max_rotation |-> << >>]

\* One pass of the loop of binary_surface_search; an error of the classifier
\* ends the call.
BssLoop ==
    /\ search # << >>
    /\ ret.kind = "new"
    /\ BssContinue(search[1])
    /\ \E r \in {BssIterate(search[1], classifier)} :
          /\ search' = <<r.frame>>
          /\ classifier' = r.res.classifier
          /\ ret' = IF r.res.ok THEN ret ELSE [kind |-> "err", err |-> r.res.err]
    /\ UNCHANGED <<d, margin, boundary, path_queue, current_parent, tree,
                   knn_index, adherer, adherer_f, stream, log>>

\* The end of binary_surface_search, once the loop condition fails.
BssReturn ==
    /\ search # << >>
    /\ ret.kind = "new"
    /\ ~BssContinue(search[1])
    /\ ret' = BssResult(search[1])
    /\ UNCHANGED <<classifier, d, margin, boundary, path_queue, current_parent,
                   tree, knn_index, adherer, adherer_f, search, stream, log>>

NextBSS == BssLoop \/ BssReturn

SpecBSS == InitBSS /\ [][NextBSS]_vars

-----------------------------------------------------------------------------
(* A call of find_opposing_boundary, part by part.                         *)

\* The number of ticks of the thousandth of the distance from t0 to the edge
\* of the domain.
FobUnit == 2 ^ FobDepth

\* The distance from t0 to the edge of the domain and to the probe p.
FobEdge == 1000 * FobUnit

FobReach == 999 * FobUnit

\* The domains passed to the call: t0 inside, on the low edge, outside.
FobDomains ==
    {[low |-> -FobEdge, high |-> FobEdge], [low |-> 0, high |-> FobEdge],
     [low |-> -FobEdge, high |-> -(FobEdge \div 2)]}

\* The deterministic classifiers: the class of t0 and of the NCells cells
\* between it and the probe, over the domain passed to the call or over half
\* of it.
CellsClassifiers ==
    {[kind |-> "Cells", origin |-> o, cells |-> cs, width |-> FobReach \div NCells,
      domain |-> dom, calls |-> 0] :
        o \in BOOLEAN, cs \in [1..NCells -> BOOLEAN],
        dom \in {[low |-> -FobEdge, high |-> FobEdge],
                 [low |-> -(FobEdge \div 2), high |-> FobEdge \div 2]}}

FobMaxErrs == {FobReach \div 16, FobReach \div 4}

InitFOB ==
    \E c \in CellsClassifiers, dom \in FobDomains, v \in {1, -1},
       e \in FobMaxErrs, num_checks \in 0..MaxChecks, num_iter \in 0..MaxSamples :
        /\ classifier = c
        /\ search = <<FobStart(e, 0, v, dom, num_checks, num_iter, c)>>
        /\ ret = [kind |-> "new"]
        /\ log = [t0 |-> LinePoint(0)]
        /\ stream = << >>
        /\ boundary = << >>
        /\ d = 1
        /\ margin = [num |-> 9, den |-> 10]
        /\ path_queue = << >>
        /\ current_parent = 0
        /\ tree = [nodes |-> << >>, edges |-> << >>]
        /\ knn_index = << >>
        /\ adherer = << >>
        /\ adherer_f = [delta_angle |-> 90, max_rotation |-> << >>]

\* The call moves on to the frame f.
FobStep(f) ==
    /\ search' = <<f>>
    /\ classifier' = f.classifier
    /\ ret' = IF f.pc = "panic" THEN [kind |-> "panic"] ELSE f.ret
    /\ UNCHANGED <<d, margin, boundary, path_queue, current_parent, tree,
                   knn_index, adherer, adherer_f, stream, log>>

\* Lines 110-122.
FobProbeStep ==
    /\ search # << >>
    /\ search[1].pc = "start"
    /\ FobStep(FobProbe(search[1]))

\* Lines 125-142, one pass of the loop.
FobGapStep ==
    /\ search # << >>
    /\ search[1].pc = "loop"
    /\ FobStep(FobGap(search[1]))

\* Lines 144-156.
FobMatchStep ==
    /\ search # << >>
    /\ search[1].pc = "match"
    /\ FobStep(FobMatch(search[1]))

NextFOB == FobProbeStep \/ FobGapStep \/ FobMatchStep

SpecFOB == InitFOB /\ [][NextFOB]_vars

-----------------------------------------------------------------------------
(* A call of reacquire_all_incremental on a stale boundary, one halfspace  *)
(* after the other.                                                        *)

\* The stale halfspaces: in the middle of the lattice, on its border, beside it.
StaleHalfspaces ==
    {[b |-> b, n |-> n] :
        b \in {<<1, 1, 1>>, <<GridMax, 1, 1>>, <<0, 1, 1>>, <<1, GridMax, 0>>},
        n \in {BasisColumn(0), VNeg(BasisColumn(0)), BasisColumn(1)}}

\* The stale boundaries, of one or two halfspaces.
StaleBoundaries ==
    {<<h>> : h \in StaleHalfspaces} \cup {<<g, h>> : g, h \in StaleHalfspaces}

\* The envelopes after the change: the boxes that span the third axis and
\* start at 0 on the second, with the whole lattice as domain or with none.
ReacqClassifiers ==
    {c \in Cubes : c.shape.low[3] = 0 /\ c.shape.high[3] = GridMax /\ c.shape.low[2] = 0}

\* The domains passed to the call: the lattice, or its part up to 1 on the
\* first axis.
ReacqDomains == {WholeGrid, [WholeGrid EXCEPT !.high[1] = 1]}

InitRQ ==
    \E b \in StaleBoundaries, c \in ReacqClassifiers, dom \in ReacqDomains,
       e \in 1..MaxStep, m \in {<< >>} \cup {<<k>> : k \in 0..MaxStep} :
        /\ boundary = b
        /\ classifier = c
        /\ search = <<ReacquireStart(dom, e, m)>>
        /\ ret = [kind |-> "new"]
        /\ log = [classifier |-> c]
        /\ stream = << >>
        /\ d = 1
        /\ margin = [num |-> 9, den |-> 10]
        /\ path_queue = << >>
        /\ current_parent = 0
        /\ tree = [nodes |-> << >>, edges |-> << >>]
        /\ knn_index = << >>
        /\ adherer = << >>
        /\ adherer_f = [delta_angle |-> 90, max_rotation |-> << >>]

\* One pass of the for loop of reacquire_all_incremental: `?` returns the
\* error of reacquire_hs_incremental.
ReacquireNext ==
    /\ search # << >>
    /\ ret.kind = "new"
    /\ Len(search[1].new_boundary) < Len(boundary)
    /\ \E hs \in {boundary[Len(search[1].new_boundary) + 1]} :
       \E r \in {ReacquireHsIncremental(classifier, hs, search[1].domain,
                                        search[1].max_err, search[1].samples_per_hs)} :
          /\ classifier' = r.classifier
          /\ search' = IF r.ok THEN <<ReacquirePush(search[1], hs, r)>> ELSE search
          /\ ret' = IF r.ok THEN ret ELSE [kind |-> "err", err |-> r.err]
    /\ UNCHANGED <<d, margin, boundary, path_queue, current_parent, tree,
                   knn_index, adherer, adherer_f, stream, log>>

\* Line 86: Ok((new_boundary, displacements))
ReacquireReturn ==
    /\ search # << >>
    /\ ret.kind = "new"
    /\ Len(search[1].new_boundary) = Len(boundary)
    /\ ret' = [kind |-> "ok", new_boundary |-> search[1].new_boundary,
               displacements |-> search[1].displacements]
    /\ UNCHANGED <<classifier, d, margin, boundary, path_queue, current_parent,
                   tree, knn_index, adherer, adherer_f, search, stream, log>>

NextRQ == ReacquireNext \/ ReacquireReturn

SpecRQ == InitRQ /\ [][NextRQ]_vars

-----------------------------------------------------------------------------
(* A server program over a RemoteClassifier or a SembasSession: it binds,  *)
(* makes up to MaxCalls calls on the object and drops it.                  *)

\* What a client sends as its configuration: the dimension count as 8 bytes,
\* most significant first, or fewer bytes before it closes the connection.
Configs ==
    {<<0, 0, 0, 0, 0, 0, 0, 3>>, <<0, 0, 0, 0, 0, 0, 0, 2>>, <<0, 0, 0, 0, 0, 0, 3, 0>>,
     <<0, 0, 0, 0, 0, 1, 0, 3>>, <<0, 0, 0, 3>>}

\* What a client sends for the class of a point; << >> when it has closed.
Replies == {<< >>, <<0>>, <<1>>, <<2>>}

\* The lines a client sends; << >> when it has closed.
Lines ==
    {<<"C", "O", "N", "T", "\n">>, <<"C", "O", "N", "T", "\r", "\n">>,
     <<"R", "E", "A", "C", "Q", "\n">>, << >>}

\* The phase labels of the callers.
Phases == {"GLOBAL_SEARCH", "SURFACE_SEARCH"}

\* The points a caller asks for: two of the unit domain, one outside of it.
RemotePoints == {<<0, 0, 0>>, <<1, 0, 1>>, <<0, -1, 2>>}

\* The variables of the explorer, which this program does not use.
NoExplorer ==
    /\ boundary = << >>
    /\ d = 1
    /\ margin = [num |-> 9, den |-> 10]
    /\ path_queue = << >>
    /\ current_parent = 0
    /\ tree = [nodes |-> << >>, edges |-> << >>]
    /\ knn_index = << >>
    /\ adherer = << >>
    /\ adherer_f = [delta_angle |-> 90, max_rotation |-> << >>]
    /\ search = << >>

InitRC ==
    \E wants \in {"Remote", "Session"} :
        /\ classifier = [kind |-> "Listening", wants |-> wants]
        /\ stream = << >>
        /\ ret = [kind |-> "new"]
        /\ log = [op |-> "none", arg |-> << >>, before |-> "none", calls |-> 0]
        /\ NoExplorer

\* The state of the session, "none" where there is no session.
StateOf(c) == IF c.kind = "Session" THEN c.state ELSE "none"

\* The history: the operation of the step, the point it was called with (as
\* << >> or <<p>>), the state of the session before it and the number of calls
\* so far.
Called(op, arg) ==
    [op |-> op, arg |-> arg, before |-> StateOf(classifier), calls |-> log.calls + 1]

\* RemoteClassifier::bind or SembasSession::bind, the client connecting.
Bind ==
    /\ classifier.kind = "Listening"
    /\ \E config \in Configs, phase \in Phases :
       \E r \in {IF classifier.wants = "Remote" THEN RemoteBind(config)
                 ELSE SembasSessionBind(config, phase)} :
          /\ classifier' = r.classifier
          /\ stream' = <<r.stream>>
          /\ ret' = IF r.ok THEN [kind |-> "bound"] ELSE [kind |-> "err", err |-> r.err]
    /\ log' = [op |-> "bind", arg |-> << >>, before |-> "none", calls |-> 0]
    /\ UNCHANGED <<d, margin, boundary, path_queue, current_parent, tree,
                   knn_index, adherer, adherer_f, search>>

\* classifier.classify(p) on the RemoteClassifier.
ClassifyRemote ==
    /\ classifier.kind = "Remote"
    /\ log.calls < MaxCalls
    /\ \E p \in RemotePoints, reply \in Replies :
       \E r \in {RemoteClassify(classifier, stream[1], p, reply)} :
          /\ stream' = <<r.stream>>
          /\ ret' = ClassifyRet(r)
          /\ log' = Called("classify", <<p>>)
    /\ UNCHANGED <<classifier, d, margin, boundary, path_queue, current_parent, tree,
                   knn_index, adherer, adherer_f, search>>

\* A call on the session, with the point arg, that left r.
SessionCall(r, op, arg) ==
    /\ classifier' = r.session
    /\ stream' = <<r.stream>>
    /\ ret' = r.ret
    /\ log' = Called(op, arg)
    /\ UNCHANGED <<d, margin, boundary, path_queue, current_parent, tree,
                   knn_index, adherer, adherer_f, search>>

\* session.classify(p)
ClassifySession ==
    /\ classifier.kind = "Session"
    /\ ret.kind # "panic"
    /\ log.calls < MaxCalls
    /\ \E p \in RemotePoints, line \in Lines, reply \in Replies :
          SessionCall(SessionClassify(classifier, stream[1], p, line, reply), "classify", <<p>>)

\* session.expect_msg()
ExpectMsgCall ==
    /\ classifier.kind = "Session"
    /\ ret.kind # "panic"
    /\ log.calls < MaxCalls
    /\ \E line \in Lines :
          SessionCall(ExpectMsg(classifier, stream[1], line), "expect_msg", << >>)

\* session.update_phase(phase)
UpdatePhaseCall ==
    /\ classifier.kind = "Session"
    /\ ret.kind # "panic"
    /\ log.calls < MaxCalls
    /\ \E phase \in Phases :
          SessionCall(SessionRet(UpdatePhase(classifier, phase), stream[1],
                                 [kind |-> "unit"]), "update_phase", << >>)

\* The RemoteClassifier, or the session that owns it, goes out of scope (also
\* when a panic unwinds the caller).
DropCall ==
    /\ classifier.kind \in {"Remote", "Session"}
    /\ classifier' = [kind |-> "Dropped"]
    /\ stream' = <<RemoteDrop(stream[1])>>
    /\ log' = [op |-> "drop", arg |-> << >>, before |-> StateOf(classifier),
               calls |-> log.calls]
    /\ UNCHANGED <<d, margin, boundary, path_queue, current_parent, tree,
                   knn_index, adherer, adherer_f, search, ret>>

NextRC ==
    \/ Bind
    \/ ClassifyRemote
    \/ ClassifySession
    \/ ExpectMsgCall
    \/ UpdatePhaseCall
    \/ DropCall

SpecRC == InitRC /\ [][NextRC]_vars

-----------------------------------------------------------------------------
(* The bytes of the client on the connection of a RemoteClassifier.  The   *)
(* client sends lines and class bytes without waiting for the server; wire *)
(* holds the bytes that have arrived and that the server has not taken     *)
(* from the connection.  A byte is named by a string: a character by       *)
(* itself, the class byte 1 by "0x01".  The history keeps the bytes sent   *)
(* and the bytes the reads of the server returned to their callers.        *)

\* What the client sends at a time.
Chunks == {<<"C", "O", "N", "T", "\n">>, <<"R", "Q", "\n">>, <<"0x01">>}

InitRX ==
    /\ classifier = [kind |-> "Remote", domain |-> Normalized]
    /\ stream = <<[tx |-> <<TextWrite(MSG_OK \o "\n")>>, rx |-> << >>, wire |-> << >>]>>
    /\ ret = [kind |-> "new"]
    /\ log = [sent |-> << >>, got |-> << >>, chunks |-> 0]
    /\ NoExplorer

\* The client sends a line or a class byte.
ClientSend ==
    /\ log.chunks < MaxSent
    /\ \E chunk \in Chunks :
          /\ stream' = <<[stream[1] EXCEPT !.wire = @ \o chunk]>>
          /\ log' = [log EXCEPT !.sent = @ \o chunk, !.chunks = @ + 1]
    /\ UNCHANGED <<classifier, ret, d, margin, boundary, path_queue, current_parent,
                   tree, knn_index, adherer, adherer_f, search>>

\* classifier.receive_msg(), once a whole line has arrived: the reader fills
\* its buffer with the line and any number of the bytes that arrived after it.
ReceiveMsgCall ==
    /\ NewlineAt(stream[1].wire, 1) > 0
    /\ \E k \in NewlineAt(stream[1].wire, 1)..Len(stream[1].wire) :
       \E arrived \in {SubSeq(stream[1].wire, 1, k)} :
       \E r \in {ReceiveMsg(stream[1], arrived)} :
          /\ stream' = <<[r.stream EXCEPT
                            !.wire = SubSeq(@, k + 1, Len(stream[1].wire))]>>
          /\ ret' = [kind |-> "msg", msg |-> r.msg]
          /\ log' = [log EXCEPT !.got = @ \o ReadLine(arrived).line]
    /\ UNCHANGED <<classifier, d, margin, boundary, path_queue, current_parent,
                   tree, knn_index, adherer, adherer_f, search>>

\* The read of the class in classify: stream.read_exact(&mut buffer) on the
\* connection itself, one byte.
ReadClass ==
    /\ stream[1].wire # << >>
    /\ stream' = <<[ReadOf(stream[1], "read_exact", <<Head(stream[1].wire)>>)
                      EXCEPT !.wire = Tail(@)]>>
    /\ ret' = [kind |-> "byte", msg |-> Head(stream[1].wire)]
    /\ log' = [log EXCEPT !.got = Append(@, Head(stream[1].wire))]
    /\ UNCHANGED <<classifier, d, margin, boundary, path_queue, current_parent,
                   tree, knn_index, adherer, adherer_f, search>>

NextRX == ClientSend \/ ReceiveMsgCall \/ ReadClass

SpecRX == InitRX /\ [][NextRX]_vars

-----------------------------------------------------------------------------
(* Properties of the explorer.                                             *)

\* p is at least the margin away from x (false for a NaN p).
AtLeastMargin(p, x) ==
    /\ ~IsNaN(p)
    /\ Dist2(p, x) * margin.den * margin.den >= margin.num * margin.num

\* The path is rejected by the overlap check: its projected point is closer
\* than the margin to the b of a recorded halfspace.
Rejected(path) ==
    \E i \in 1..Len(boundary) : DistLess(Projected(Explorer, path), boundary[i].b, margin)

\* C1: after new and after every step, whatever it returned, the boundary, the
\* spatial index and the tree have the same number of entries, and for every
\* position i the index holds exactly one entry with payload i, located at
\* boundary[i].b.
C1_IndexMirrorsBoundary ==
    /\ Len(knn_index) = Len(boundary)
    /\ Len(tree.nodes) = Len(boundary)
    /\ \A i \in 0..(Len(boundary) - 1) :
          /\ Cardinality({k \in 1..Len(knn_index) : knn_index[k].data = i}) = 1
          /\ \A k \in 1..Len(knn_index) :
                knn_index[k].data = i => knn_index[k].geom = At(boundary, i).b

\* A step has just appended a halfspace whose b an earlier halfspace has too.
C1_Witness ==
    /\ ret.kind = "sample"
    /\ adherer = << >>
    /\ \E i \in 1..(Len(boundary) - 1) : boundary[i].b = boundary[Len(boundary)].b

\* C2: when sample_next returns an error inside step, step returns that same
\* error, the active adherer is cleared, the boundary, the index and the tree
\* are unchanged, nothing is put back in the queue and the queued paths keep
\* their order (the queue is left as select_parent left it: a suffix of the
\* queue before, the whole of it when the adherer was already running).
C2_ErrorAbandonsPath ==
    [][ret'.kind = "err" =>
          /\ log'.adh # << >>
          /\ ~log'.adh[1].ok
          /\ ret'.err = log'.adh[1].err
          /\ adherer' = << >>
          /\ boundary' = boundary
          /\ knn_index' = knn_index
          /\ tree' = tree
          /\ \E k \in 0..Len(path_queue) :
                path_queue' = SubSeq(path_queue, k + 1, Len(path_queue))
          /\ adherer # << >> => path_queue' = path_queue]_vars

\* A step returned an error with halfspaces found and paths still queued.
C2_Witness ==
    /\ ret.kind = "err"
    /\ Len(boundary) >= 2
    /\ path_queue # << >>

\* C3, as stated: any two distinct halfspaces of the boundary have b-points at
\* least margin apart.
C3_PairwiseSeparation ==
    \A i, j \in 1..Len(boundary) :
        i # j => AtLeastMargin(boundary[i].b, boundary[j].b)

\* C3, amended: every halfspace but the root was found by an adherer whose
\* path had its projected point boundary[parent].b + d * v at least margin
\* away from the b of every halfspace recorded when the path was dequeued;
\* the b the adherer then finds may be closer to a recorded b, or equal to it.
C3_ProjectedSeparation ==
    \A j \in 2..Len(boundary) :
        \A i \in 1..log.found_by[j].known :
            AtLeastMargin(log.found_by[j].p, boundary[i].b)

\* Two halfspaces of the boundary share their b, each found from a projected
\* point away from every recorded b.
C3_Witness ==
    \E i, j \in 2..Len(boundary) : i < j /\ boundary[i].b = boundary[j].b

\* C4: step starts an adherer for a dequeued path (parent, v) only if the
\* projected point boundary[parent].b + d * v is at least margin away from the
\* b of every halfspace recorded so far; a path whose projected point is
\* closer than margin is discarded.
C4_StartedOnlyWhenClear ==
    \A s \in 1..Len(log.started) :
        \A i \in 1..log.started[s].known :
            AtLeastMargin(log.started[s].p, boundary[i].b)

\* C5: every edge of the tree goes from a parent to a child at a strictly
\* greater position, the parent is the halfspace whose queued path started the
\* adherer that found the child, and every node but the root has exactly one
\* parent (so the tree has no cycle).
C5_TreeEdges ==
    /\ \A e \in 1..Len(tree.edges) :
          /\ tree.edges[e][1] < tree.edges[e][2]
          /\ tree.edges[e][2] \in 1..(Len(boundary) - 1)
          /\ tree.edges[e][1] = At(log.found_by, tree.edges[e][2]).id
    /\ \A c \in 1..(Len(tree.nodes) - 1) :
          Cardinality({e \in 1..Len(tree.edges) : tree.edges[e][2] = c}) = 1

\* The tree has a child of a halfspace that is not the root.
C5_Witness ==
    /\ Len(tree.edges) >= 3
    /\ \E e \in 1..Len(tree.edges) : tree.edges[e][1] > 0

\* C6: paths leave the queue in the order they were enqueued, so the paths of
\* a halfspace at position i are all dequeued before any path of a halfspace
\* at position j > i; and a halfspace keeps its position in the boundary.
C6_Fifo ==
    /\ [](/\ log.enqueued = log.dequeued \o path_queue
          /\ \A k \in 1..(Len(log.enqueued) - 1) :
                log.enqueued[k].id <= log.enqueued[k + 1].id)
    /\ [][/\ Len(boundary') >= Len(boundary)
          /\ \A i \in 1..Len(boundary) : boundary'[i] = boundary[i]]_vars

\* Paths of the root and of two of its descendants were dequeued.
C6_Witness ==
    /\ Len(boundary) >= 4
    /\ \E k \in 1..Len(log.dequeued) : log.dequeued[k].id >= 2
    /\ path_queue # << >>

\* C7: step returns Ok(None) exactly when no adherer is active and every
\* queued path is rejected by the overlap check; it leaves the queue empty and
\* makes no classifier query; from then on every step returns None and the
\* boundary does not change.
C7_NoneWhenDrained ==
    [][/\ (ret'.kind = "none") <=>
             (adherer = << >> /\ \A k \in 1..Len(path_queue) : Rejected(path_queue[k]))
       /\ ret'.kind = "none" =>
             /\ path_queue' = << >>
             /\ adherer' = << >>
             /\ classifier' = classifier
             /\ boundary' = boundary
       /\ ret.kind = "none" => ret'.kind = "none"]_vars

\* step returned None twice in a row after an exploration that found halfspaces
\* and whose last paths were all rejected.
C7_Witness ==
    /\ log.nones = 2
    /\ Len(boundary) >= 3
    /\ Len(log.dequeued) > Len(log.started)

\* C8: when every adherer run ends in an error (no run finds a halfspace),
\* calling step again and again reaches Ok(None), and no more than the
\* 2 (N - 1) paths of the root are ever started.
C8_ErringRunsDrain ==
    /\ <>(Len(boundary) > 1 \/ ret.kind = "none")
    /\ [](Len(boundary) = 1 => Len(log.started) <= 2 * (N - 1))

\* All the paths of the root were started, every run ended in an error and
\* step returned None.
C8_Witness ==
    /\ ret.kind = "none"
    /\ Len(boundary) = 1
    /\ Len(log.started) = 2 * (N - 1)
    /\ classifier.calls > Len(log.started)

\* C9: right after new the boundary is [root], the index holds the one entry
\* (root.b, payload 0), the tree has one node and no edge, no adherer is
\* active, and the queue holds the 2 (N - 1) cardinal directions of the root,
\* each unit direction of its surface followed by its negation, all with
\* parent 0.
C9_AfterNew ==
    ret.kind = "new" =>
        /\ Len(boundary) = 1
        /\ knn_index = <<[geom |-> boundary[1].b, data |-> 0]>>
        /\ tree = [nodes |-> <<boundary[1]>>, edges |-> << >>]
        /\ adherer = << >>
        /\ Len(path_queue) = 2 * (N - 1)
        /\ \A k \in 1..Len(path_queue) : path_queue[k].id = 0
        /\ \A j \in 1..(N - 1) :
              /\ ~IsNaN(path_queue[2 * j - 1].v)
              /\ Norm2(path_queue[2 * j - 1].v) = 1
              /\ Dot(path_queue[2 * j - 1].v, boundary[1].n) = 0
              /\ path_queue[2 * j].v = VNeg(path_queue[2 * j - 1].v)
        /\ \A j, k \in 1..(N - 1) :
              j # k => /\ ~IsNaN(path_queue[2 * j - 1].v)
                       /\ ~IsNaN(path_queue[2 * k - 1].v)
                       /\ Dot(path_queue[2 * j - 1].v, path_queue[2 * k - 1].v) = 0

-----------------------------------------------------------------------------
(* Properties of the explorer and its adherers.                            *)

\* C18: the explorer holds at most one adherer, and the one it holds is
\* Searching and returned Ok on its last sample_next (one that returned an
\* error or reached FoundBoundary is never kept, so never sampled again); a
\* path is started only while no adherer is held, and the adherer created for
\* it is fresh: its first query is at the projected point of the path and it
\* has rotated by nothing.  Every step makes one classifier query when it
\* holds or starts an adherer, none otherwise.
C18_OneFreshAdherer ==
    /\ [](/\ Len(adherer) <= 1
          /\ adherer # << >> =>
                /\ adherer[1].state = Searching
                /\ log.adh # << >>
                /\ log.adh[1].ok)
    /\ [][/\ Len(log'.started) > Len(log.started) =>
                /\ adherer = << >>
                /\ Len(log'.started) = Len(log.started) + 1
                /\ log'.adh # << >>
                /\ log'.adh[1].ok =>
                      log'.adh[1].sample.p = log'.started[Len(log'.started)].p
                /\ adherer' # << >> =>
                      /\ Len(adherer'[1].samples) = 1
                      /\ adherer'[1].angle = 0
                      /\ adherer'[1].pivot =
                            At(boundary, log'.started[Len(log'.started)].id)
          /\ adherer # << >> => Len(log'.started) = Len(log.started)
          /\ classifier'.calls =
                classifier.calls + (IF log'.adh # << >> /\ ret'.kind # "panic"
                                    THEN 1 ELSE 0)]_vars

\* An adherer was dropped on an error, another one was dropped on finding a
\* halfspace, and a third one is running.
C18_Witness ==
    /\ adherer # << >>
    /\ Len(adherer[1].samples) >= 2
    /\ Len(boundary) >= 2
    /\ Len(log.started) > Len(boundary)

-----------------------------------------------------------------------------
(* Properties of the ConstantAdherer.                                      *)

\* C10: a ConstantAdherer starts Searching and changes to FoundBoundary on the
\* first sample_next whose sample differs in class from the sample of the call
\* before it, and on no earlier call; the b it emits is the WithinMode sample
\* of that pair.
C10_FoundOnFirstClassChange ==
    /\ (adherer[1].state.tag = "FoundBoundary") <=>
          (\E k \in 2..Len(log.samples) : log.samples[k].cls # log.samples[k - 1].cls)
    /\ adherer[1].state.tag = "FoundBoundary" =>
          /\ \A k \in 2..(Len(log.samples) - 1) :
                log.samples[k].cls = log.samples[k - 1].cls
          /\ adherer[1].state.hs.b =
                (IF log.samples[Len(log.samples)].cls
                 THEN log.samples[Len(log.samples)].p
                 ELSE log.samples[Len(log.samples) - 1].p)
    /\ adherer[1].state.tag # "FoundBoundary" => adherer[1].state = Searching

\* The third call was the first to differ in class, and its sample is OutOfMode.
C10_Witness ==
    /\ adherer[1].state.tag = "FoundBoundary"
    /\ Len(log.samples) = 3
    /\ ~log.samples[3].cls
    /\ adherer[1].state.hs.b = log.samples[2].p

\* The least integer not below a / b, for a >= 0 and b > 0.
CeilDiv(a, b) == (a + b - 1) \div b

C12_EndsWithinCeilPlusOne ==
    (/\ ~(ret.kind = "err" /\ ret.err = "OutOfBounds")
     /\ classifier.calls >=
           CeilDiv(adherer[1].max_rotation, adherer[1].delta_angle) + 1)
        => (adherer[1].state.tag = "FoundBoundary" \/ ret.kind = "err")

-----------------------------------------------------------------------------
(* Properties of the BinarySearchAdherer.                                  *)

\* The classifier has not failed in this run.
NeverFailed == ~(ret.kind = "err" /\ ret.err = "OutOfBounds")

\* C14: created with n_iter >= 1 and run against a classifier that never
\* fails, a BinarySearchAdherer is Searching after each of its first n_iter - 1
\* calls of sample_next, and the n_iter-th call either sets FoundBoundary or
\* returns BoundaryLost; every call makes one classifier query, n_iter in all.
C14_ExactlyNIterQueries ==
    (log.n_iter >= 1 /\ NeverFailed) =>
        /\ classifier.calls <= log.n_iter
        /\ adherer[1].n_iter = log.n_iter - classifier.calls
        /\ Len(log.observed) = classifier.calls
        /\ classifier.calls < log.n_iter =>
              (adherer[1].state = Searching /\ ret.kind \in {"new", "sample"})
        /\ classifier.calls = log.n_iter =>
              \/ adherer[1].state.tag = "FoundBoundary" /\ ret.kind = "sample"
              \/ /\ adherer[1].state = Searching
                 /\ ret.kind = "err"
                 /\ ret.err = "BoundaryLost"

\* A run of the largest n_iter ended in FoundBoundary on its last call.
C14_Witness ==
    /\ log.n_iter = MaxNIter
    /\ classifier.calls = MaxNIter
    /\ adherer[1].state.tag = "FoundBoundary"

\* The positions in the samples the classifier gave that are WithinMode.
WithinObserved == {k \in 1..Len(log.observed) : log.observed[k].cls}

\* C15: the n_iter-th call of a run whose classifier never failed sets
\* FoundBoundary if and only if the run has seen a WithinMode and an OutOfMode
\* sample, its own sample included, and then b is the latest WithinMode sample;
\* otherwise the call returns BoundaryLost.
C15_FoundIffBothSeen ==
    (log.n_iter >= 1 /\ NeverFailed /\ classifier.calls = log.n_iter) =>
        /\ (adherer[1].state.tag = "FoundBoundary") <=>
              (/\ WithinObserved # {}
               /\ WithinObserved # 1..Len(log.observed))
        /\ adherer[1].state.tag = "FoundBoundary" =>
              adherer[1].state.hs.b =
                 log.observed[CHOOSE k \in WithinObserved :
                                 \A j \in WithinObserved : j <= k].p
        /\ adherer[1].state.tag # "FoundBoundary" =>
              (ret.kind = "err" /\ ret.err = "BoundaryLost")

\* The last call gave an OutOfMode sample and b is a sample of an earlier
\* call, with OutOfMode samples before it.
C15_Witness ==
    /\ adherer[1].state.tag = "FoundBoundary"
    /\ Len(log.observed) >= 3
    /\ ~log.observed[Len(log.observed)].cls
    /\ ~log.observed[1].cls

\* A lower bound of the angle between the point b of the arc and the place
\* where the class of the classifier c changes (between last and last + 1).
ArcChangeGap(c, b) ==
    IF c.within_low THEN c.last - b.turned ELSE b.turned - (c.last + 1)

\* C16: for a classifier whose class changes once along the arc, a run with
\* n_iter >= 1 that reaches FoundBoundary returns a b whose angle to the class
\* change is at most init_angle / 2^(n_iter - 1).
C16_ErrorWithinLastHalving ==
    (/\ classifier.kind = "Arc"
     /\ log.n_iter >= 1
     /\ adherer[1].state.tag = "FoundBoundary")
        => ArcChangeGap(classifier, adherer[1].state.hs.b) * 2 ^ (log.n_iter - 1)
              <= log.init_angle

-----------------------------------------------------------------------------
(* Properties of both adherers.                                            *)

\* C17: the b of the halfspace of an adherer in FoundBoundary, ConstantAdherer
\* or BinarySearchAdherer, is the point of a sample that sample_next returned
\* as WithinMode earlier in the same run.
C17_EmittedBWasWithin ==
    adherer[1].state.tag = "FoundBoundary" =>
        \E k \in 1..Len(log.samples) :
            log.samples[k].cls /\ log.samples[k].p = adherer[1].state.hs.b

\* A BinarySearchAdherer found the boundary at a sample that is not its last.
C17_Witness ==
    /\ ~IsConstantAdherer
    /\ adherer[1].state.tag = "FoundBoundary"
    /\ Len(log.samples) >= 3
    /\ adherer[1].state.hs.b = log.samples[2].p

-----------------------------------------------------------------------------
(* Properties of binary_surface_search.                                    *)

RECURSIVE CeilLog2From(_, _, _)
CeilLog2From(a, b, k) == IF a <= b * 2 ^ k THEN k ELSE CeilLog2From(a, b, k + 1)

\* The least k with a / b <= 2^k, for a >= b > 0: ceil(log2(a / b)).
CeilLog2(a, b) == CeilLog2From(a, b, 0)

\* The distance between the points of the pair the search was given.
PairDistance == log.x.along - log.t.along

\* C19: for a pair at a distance above max_err and a classifier that never
\* fails, every query halves the distance between p_x and p_t and the search
\* stops as soon as it is at most max_err: it returns a halfspace, after
\* exactly ceil(log2(distance / max_err)) queries, when the cap is at least
\* that number, and MaxSamplesExceeded, after cap queries, when it is smaller.
C19_QueriesToMaxErr ==
    (PairDistance > search[1].max_err /\ NeverFailed) =>
        /\ (search[1].p_x - search[1].p_t) * 2 ^ search[1].i = PairDistance
        /\ classifier.calls = search[1].i
        /\ search[1].i <= CeilLog2(PairDistance, search[1].max_err)
        /\ search[1].i <= search[1].max_samples
        /\ ret.kind = "hs" =>
              /\ search[1].max_samples >= CeilLog2(PairDistance, search[1].max_err)
              /\ search[1].i = CeilLog2(PairDistance, search[1].max_err)
        /\ ret.kind = "err" =>
              /\ ret.err = "MaxSamplesExceeded"
              /\ search[1].max_samples < CeilLog2(PairDistance, search[1].max_err)
              /\ search[1].i = search[1].max_samples

\* A search succeeded with its last allowed query.
C19_Witness ==
    /\ ret.kind = "hs"
    /\ PairDistance > search[1].max_err
    /\ search[1].i = MaxSamples
    /\ search[1].max_samples = MaxSamples
    /\ search[1].p_x - search[1].p_t < search[1].max_err

\* The classifier's answer at the point at distance dist from hs.b along hs.n.
AlongNormal(hs, dist) == ClassifyImpl(classifier, LinePoint(hs.b.along + dist * hs.n))

\* C20, as stated: when the search returns Ok(hs), the classifier labels hs.b
\* WithinMode and labels hs.b + max_err * hs.n OutOfMode.
C20_BeyondIsOutOfMode ==
    (ret.kind = "hs" /\ classifier.kind = "Line") =>
        /\ AlongNormal(ret.hs, 0).ok
        /\ AlongNormal(ret.hs, 0).sample.cls
        /\ AlongNormal(ret.hs, search[1].max_err).ok
        /\ ~AlongNormal(ret.hs, search[1].max_err).sample.cls

\* C20, amended: when the search returns Ok(hs) for a pair (t, x) that the
\* classifier, a function of the point, labels WithinMode and OutOfMode, the
\* classifier labels hs.b WithinMode and labels OutOfMode the point
\* hs.b + g * hs.n, where g = |p_x - p_t| <= max_err is the distance the search
\* stopped at; that point is x or a sample of the search.
C20_GapEndIsOutOfMode ==
    (ret.kind = "hs" /\ classifier.kind = "Line") =>
        /\ AlongNormal(ret.hs, 0).ok
        /\ AlongNormal(ret.hs, 0).sample.cls
        /\ Abs(search[1].s) = search[1].p_x - search[1].p_t
        /\ Abs(search[1].s) <= search[1].max_err
        /\ AlongNormal(ret.hs, Abs(search[1].s)).ok
        /\ ~AlongNormal(ret.hs, Abs(search[1].s)).sample.cls

\* A search of two queries or more returned a halfspace for which the point
\* hs.b + max_err * hs.n is WithinMode again.
C20_Witness ==
    /\ ret.kind = "hs"
    /\ classifier.kind = "Line"
    /\ search[1].i >= 2
    /\ AlongNormal(ret.hs, search[1].max_err).ok
    /\ AlongNormal(ret.hs, search[1].max_err).sample.cls

-----------------------------------------------------------------------------
(* Properties of the remote classifier and of the session.                 *)

\* The writes and the reads a step added to the connection.
NewWrites == SubSeq(stream'[1].tx, Len(stream[1].tx) + 1, Len(stream'[1].tx))

NewReads == SubSeq(stream'[1].rx, Len(stream[1].rx) + 1, Len(stream'[1].rx))

\* The step is a call of classify on the session.
IsSessionClassify ==
    /\ classifier.kind = "Session"
    /\ log'.op = "classify"
    /\ log'.calls = log.calls + 1

\* C21: classify on a session in Messaging or Requesting starts a new
\* request, whose first write is the phase line; in Incomplete it continues
\* the pending request, writing no line; neither the Incomplete panic of
\* new_request nor the assertion of continue_request fires.
C21_ClassifyDispatch ==
    [][IsSessionClassify =>
        /\ classifier.state \in {"Messaging", "Requesting"} =>
              /\ NewWrites # << >>
              /\ NewWrites[1] = TextWrite(classifier.phase \o "\n")
        /\ classifier.state = "Incomplete" =>
              \A i \in 1..Len(NewWrites) : NewWrites[i].text = ""
        /\ ~(ret'.kind = "panic"
              /\ ret'.at \in {"new_request: Incomplete", "continue_request"})]_vars

\* A pending request was continued and completed.
C21_Witness ==
    /\ log.op = "classify"
    /\ log.before = "Incomplete"
    /\ ret.kind = "ok"
    /\ classifier.state = "Messaging"

\* The step is a call of expect_msg on the session.
IsExpectMsg ==
    /\ classifier.kind = "Session"
    /\ log'.op = "expect_msg"
    /\ log'.calls = log.calls + 1

\* C22: on an Incomplete session classify writes no line and reads no line:
\* it does no I/O at all for a point outside the domain and otherwise writes
\* the 8 * N bytes of the point and reads at most one byte; expect_msg
\* returns None and leaves the connection and the session as they were.
C22_IncompleteIsQuiet ==
    [][/\ (IsSessionClassify /\ classifier.state = "Incomplete") =>
            \/ /\ NewWrites = << >>
               /\ NewReads = << >>
               /\ ret' = [kind |-> "err", err |-> "OutOfBounds"]
            \/ /\ Len(NewWrites) = 1
               /\ NewWrites[1].text = ""
               /\ Len(NewWrites[1].bytes) = 8 * N
               /\ ret'.kind = "ok" => NewWrites[1].bytes = CastSlice(ret'.sample.p)
               /\ Len(NewReads) = 1
               /\ NewReads[1].call = "read_exact"
               /\ Len(NewReads[1].data) <= 1
               /\ ret' # [kind |-> "err", err |-> "OutOfBounds"]
       /\ (IsExpectMsg /\ classifier.state = "Incomplete") =>
            /\ ret' = MsgRet(<< >>)
            /\ stream' = stream
            /\ classifier' = classifier]_vars

\* expect_msg was called on an Incomplete session.
C22_Witness ==
    /\ log.op = "expect_msg"
    /\ log.before = "Incomplete"
    /\ classifier.state = "Incomplete"
    /\ ret = MsgRet(<< >>)

\* The configuration the server read from the client.
ConfigRead == stream[1].rx[1].data

\* C23: when the 8 bytes of the client are not the big-endian encoding of N,
\* bind writes the line "<N>" and nothing else, and returns InvalidInput
\* without making a classifier.
C23_MismatchRejected ==
    (/\ stream # << >>
     /\ Len(ConfigRead) = 8
     /\ ConfigRead # <<0, 0, 0, 0, 0, 0, 0, N>>) =>
        /\ stream[1].rx[1].call = "read_exact"
        /\ ret = [kind |-> "err", err |-> "InvalidInput"]
        /\ stream[1].tx = <<TextWrite(ToString(N) \o "\n")>>
        /\ Len(stream[1].rx) = 1
        /\ classifier.kind = "None"

\* A client that stated 768 dimensions (the bytes of N one place too high)
\* was rejected.
C23_Witness ==
    /\ stream # << >>
    /\ ConfigRead = <<0, 0, 0, 0, 0, 0, N, 0>>
    /\ ret = [kind |-> "err", err |-> "InvalidInput"]
    /\ stream[1].tx = <<TextWrite("3\n")>>

\* The step is a call of classify on a RemoteClassifier with a point of the
\* unit domain.
IsRemoteClassifyInDomain ==
    /\ classifier.kind = "Remote"
    /\ log'.op = "classify"
    /\ log'.calls = log.calls + 1
    /\ \A k \in Axes : 0 <= log'.arg[1][k] /\ log'.arg[1][k] <= 1

\* C24: for a point p of the unit domain classify writes the 8 * N bytes of
\* p, once, and then reads once, one byte: 0 gives OutOfMode(p), 1 gives
\* WithinMode(p) and any other byte InvalidClassifierResponse.
C24_OneRequestOneResponse ==
    [][IsRemoteClassifyInDomain =>
        /\ NewWrites = <<BytesWrite(CastSlice(log'.arg[1]))>>
        /\ Len(NewWrites[1].bytes) = 8 * N
        /\ Len(NewReads) = 1
        /\ NewReads[1].call = "read_exact"
        /\ NewReads[1].after = Len(stream'[1].tx)
        /\ Len(NewReads[1].data) <= 1
        /\ NewReads[1].data = <<0>> =>
              ret' = [kind |-> "ok", sample |-> [cls |-> FALSE, p |-> log'.arg[1]]]
        /\ NewReads[1].data = <<1>> =>
              ret' = [kind |-> "ok", sample |-> [cls |-> TRUE, p |-> log'.arg[1]]]
        /\ (Len(NewReads[1].data) = 1 /\ NewReads[1].data[1] > 1) =>
              ret' = [kind |-> "err", err |-> "InvalidClassifierResponse"]]_vars

\* The client answered the byte 2 and, on another call, the byte 1.
C24_Witness ==
    /\ classifier.kind = "Remote"
    /\ log.op = "classify"
    /\ ret = [kind |-> "err", err |-> "InvalidClassifierResponse"]
    /\ \E i \in 1..Len(stream[1].rx) : stream[1].rx[i].data = <<1>>
    /\ stream[1].rx[Len(stream[1].rx)].data = <<2>>

\* The positions of the end line among the writes.
EndLines == {i \in 1..Len(stream[1].tx) : stream[1].tx[i] = TextWrite("end\n")}

\* C25: once the handshake has succeeded the first write on the connection
\* is the OK line; the end line is written when the classifier is dropped,
\* once, as the last write, and never before.
C25_OkFirstEndLast ==
    classifier.kind \in {"Remote", "Session", "Dropped"} =>
        /\ stream[1].tx # << >>
        /\ stream[1].tx[1] = TextWrite("OK\n")
        /\ classifier.kind = "Dropped" => EndLines = {Len(stream[1].tx)}
        /\ classifier.kind # "Dropped" => EndLines = {}

\* A session that wrote phase lines and a point was dropped.
C25_Witness ==
    /\ classifier.kind = "Dropped"
    /\ log.before # "none"
    /\ \E i, j \in 2..Len(stream[1].tx) - 1 :
          /\ i < j
          /\ stream[1].tx[i].text \in {ph \o "\n" : ph \in Phases}
          /\ stream[1].tx[j].bytes # << >>

-----------------------------------------------------------------------------
(* Properties of find_opposing_boundary.                                   *)

\* The classifier labels the point p WithinMode.
LabelsWithin(p) ==
    /\ ClassifyImpl(classifier, p).ok
    /\ ClassifyImpl(classifier, p).sample.cls

\* C26: when the classifier labels t0 WithinMode and find_opposing_boundary
\* returns Ok(b), the classifier labels b WithinMode.
C26_OpposingIsWithin ==
    (/\ search # << >>
     /\ search[1].pc = "done"
     /\ ret.kind = "ok"
     /\ LabelsWithin(LinePoint(search[1].t0))) =>
        LabelsWithin(ret.b)

\* The call found a gap between the envelope at the edge and t0 and returned
\* a point of neither end after the final surface search.
C26_Witness ==
    /\ search # << >>
    /\ search[1].pc = "done"
    /\ ret.kind = "ok"
    /\ LabelsWithin(LinePoint(search[1].t0))
    /\ search[1].x # << >>
    /\ Abs(search[1].x[1]) < FobReach
    /\ ret.b.along # search[1].t0
    /\ ret.b.along # search[1].t[1]
    /\ classifier.calls > search[1].num_checks + 2

-----------------------------------------------------------------------------
(* Incremental reacquisition.                                              *)

\* Every stale b lies inside the domain of the call, and the classifier fails
\* only for points outside that domain.
ReacqWellPosed ==
    /\ \A i \in 1..Len(boundary) : Contains(search[1].domain, boundary[i].b)
    /\ \/ classifier.domain = << >>
       \/ /\ Contains(classifier.domain[1], search[1].domain.low)
          /\ Contains(classifier.domain[1], search[1].domain.high)

\* C27: when every stale b lies inside the domain and the classifier fails
\* (OutOfBounds) only outside it, reacquire_all_incremental does not return
\* an error: it returns Ok with one entry per input halfspace, in input
\* order, in both lists, and None where the walk found no flip.
C27_OneEntryPerHalfspace ==
    ReacqWellPosed =>
        /\ ret.kind # "err"
        /\ ret.kind = "ok" =>
              /\ Len(ret.new_boundary) = Len(boundary)
              /\ Len(ret.displacements) = Len(boundary)
              /\ \A i \in 1..Len(boundary) :
                    /\ (ret.new_boundary[i] = << >>) = (ret.displacements[i] = << >>)
                    /\ ret.new_boundary[i] # << >> => ret.new_boundary[i][1].n = boundary[i].n

\* The samples of a walk that hold the point p with the class cls.
Labelled(walk, p, cls) == \E k \in 1..Len(walk) : walk[k].p = p /\ walk[k].cls = cls

\* new_b lies a whole number of steps of max_err along n from b.
WholeSteps(b, n, max_err, new_b) ==
    \E k \in 0..(GridMax + MaxStep) :
        \/ new_b = VAdd(b, VScale(k * max_err, n))
        \/ new_b = VSub(b, VScale(k * max_err, n))

\* C28: every halfspace reacquired as Some keeps the n of the stale
\* halfspace, has a b that the classifier labelled WithinMode during the
\* walk, has b + max_err * n labelled OutOfMode during the walk, and lies a
\* whole number of steps of max_err along n from the stale b.
C28_ReacquiredOnEnvelope ==
    \A i \in 1..Len(search[1].new_boundary) :
        search[1].new_boundary[i] # << >> =>
            LET hs == boundary[i]
                new_hs == search[1].new_boundary[i][1]
                walk == search[1].walks[i]
                max_err == search[1].max_err
            IN  /\ new_hs.n = hs.n
                /\ Labelled(walk, new_hs.b, TRUE)
                /\ Labelled(walk, VAdd(new_hs.b, VScale(max_err, hs.n)), FALSE)
                /\ WholeSteps(hs.b, hs.n, max_err, new_hs.b)

\* A boundary of two halfspaces was reacquired: one moved by more than one
\* step, the other was found from the OutOfMode side.
C28_Witness ==
    /\ ret.kind = "ok"
    /\ Len(ret.new_boundary) = 2
    /\ \E i, j \in 1..2 :
          /\ ret.new_boundary[i] # << >>
          /\ ret.new_boundary[j] # << >>
          /\ Len(search[1].walks[i]) > 2
          /\ search[1].walks[i][1].cls
          /\ ret.new_boundary[i][1].b # boundary[i].b
          /\ ~search[1].walks[j][1].cls

-----------------------------------------------------------------------------
(* load_boundary and backprop.                                             *)

\* The step is the driver's call of op.
IsDriverCall(op) ==
    /\ search # << >>
    /\ search'[1].calls = search[1].calls + 1
    /\ search'[1].op = op

RECURSIVE CardinalPaths(_, _)

\* The cardinal paths of the halfspaces of b from the i-th on, in order.
CardinalPaths(b, i) ==
    IF i > Len(b) THEN << >>
    ELSE PathsOf(i - 1, CreateCardinals(b[i].n)) \o CardinalPaths(b, i + 1)

\* C29: after load_boundary(B) for a non-empty B on an explorer that holds a
\* boundary, the boundary is B, the index holds one entry per halfspace of B
\* with its position as payload, the first halfspace of B is a root of the
\* tree and every other one has a parent, no adherer is active and the path
\* queue holds the cardinal paths of the halfspaces of B.
C29_LoadReplacesBoundary ==
    [][IsDriverCall("load") =>
        LET b == search'[1].arg
            first == Len(tree'.nodes) - Len(b)
        IN  /\ ret'.kind # "panic"
            /\ boundary' = b
            /\ Len(knn_index') = Len(b)
            /\ \A i \in 1..Len(b) :
                  \E k \in 1..Len(knn_index') :
                      knn_index'[k] = [geom |-> b[i].b, data |-> i - 1]
            /\ first >= 0
            /\ \A i \in 1..Len(b) :
                  /\ tree'.nodes[first + i] = b[i]
                  /\ (i = 1) = (\A k \in 1..Len(tree'.edges) : tree'.edges[k][2] # first + i - 1)
            /\ adherer' = << >>
            /\ path_queue' = CardinalPaths(b, 1)]_vars

\* The sum of the n of the halfspaces whose index entries are in the set.
RECURSIVE SumOfN(_)
SumOfN(entries) ==
    IF entries = {} THEN Zeros
    ELSE LET k == CHOOSE k \in entries : TRUE
         IN  VAdd(boundary[knn_index[k].data + 1].n, SumOfN(entries \ {k}))

\* The parents of the node id in the tree.
ParentsOf(id) == {e[1] : e \in {tree.edges[k] : k \in {j \in 1..Len(tree.edges) : tree.edges[j][2] = id}}}

\* The entries of the index within the distance r of the point b.
EntriesWithin(b, r) ==
    {k \in 1..Len(knn_index) :
        /\ ~IsNaN(knn_index[k].geom)
        /\ Dist2(b, knn_index[k].geom) * r.den * r.den <= r.num * r.num}

\* C30: backprop(child, r) changes nothing when the child is the root;
\* otherwise it replaces only the n of the child's parent, by the normalised
\* mean of the n of all indexed halfspaces within the distance r of the
\* parent's b (the parent among them), and leaves every b, every other n, the
\* length of the boundary, the index, the tree and the path queue unchanged.
\* (A call that panics inside the RTree returns nothing.)
C30_BackpropRefitsParentOnly ==
    [][IsDriverCall("backprop") /\ ret'.kind # "panic" =>
        LET child == search'[1].arg
            r == search'[1].margin
        IN  /\ <<knn_index', tree', path_queue', adherer', current_parent'>>
                 = <<knn_index, tree, path_queue, adherer, current_parent>>
            /\ Len(boundary') = Len(boundary)
            /\ \A i \in 1..Len(boundary) : boundary'[i].b = boundary[i].b
            /\ ParentsOf(child) = {} => boundary' = boundary
            /\ \A p \in ParentsOf(child) :
                  /\ \A i \in 1..Len(boundary) : i # p + 1 => boundary'[i] = boundary[i]
                  /\ (p + 1) \in {knn_index[k].data + 1 : k \in EntriesWithin(boundary[p + 1].b, r)}
                  /\ boundary'[p + 1].n
                       = Direction(SumOfN(EntriesWithin(boundary[p + 1].b, r)))]_vars

\* Backprop has turned the n of a parent with other halfspaces within r: the
\* mean is no longer the n the adherer reported for it.
C30_Witness ==
    /\ search[1].op = "backprop"
    /\ ParentsOf(search[1].arg) # {}
    /\ \E p \in ParentsOf(search[1].arg) :
          /\ boundary[p + 1].n # tree.nodes[p + 1].n
          /\ ~IsNaN(boundary[p + 1].n)
          /\ Cardinality(EntriesWithin(boundary[p + 1].b, search[1].margin)) >= 3

-----------------------------------------------------------------------------
(* approx_surface.                                                         *)

\* C31: approx_surface returns a halfspace whose b is the b of the input
\* halfspace and whose n has unit length.
C31_ApproxSurfaceUnitNormal ==
    ret.kind = "ok" =>
        /\ ret.new_hs.b = boundary[1].b
        /\ ~IsNaN(ret.new_hs.n.num)
        /\ Norm2(ret.new_hs.n.num) = ret.new_hs.n.den * ret.new_hs.n.den

-----------------------------------------------------------------------------
(* The tree of the MeshExplorer.                                           *)

\* C32: for every edge parent -> child that step added to the tree, with
\* 0 < margin < d, the b of the child is at least margin away from the b of
\* the parent.
C32_ChildAwayFromParent ==
    \A e \in 1..Len(tree.edges) :
        AtLeastMargin(At(boundary, tree.edges[e][1]).b, At(boundary, tree.edges[e][2]).b)

\* The tree has edges from the root and from a child of the root, and the
\* margin lies strictly between 0 and d.
C32_Witness ==
    /\ 0 < margin.num
    /\ margin.num < d * margin.den
    /\ \E e, f \in 1..Len(tree.edges) :
          /\ tree.edges[e][1] = 0
          /\ tree.edges[f][1] = tree.edges[e][2]

-----------------------------------------------------------------------------
(* Domain::distance_to_edge.                                               *)

\* The point p + (t2 / 2) v, doubled.
RayAt(t2) == [k \in Axes |-> 2 * search[1].p[k] + t2 * search[1].v[k]]

\* The doubled point lies on the border of the box.
OnBoxBorder(q) ==
    /\ \A k \in Axes : 2 * search[1].domain.low[k] <= q[k] /\ q[k] <= 2 * search[1].domain.high[k]
    /\ \E k \in Axes : q[k] = 2 * search[1].domain.low[k] \/ q[k] = 2 * search[1].domain.high[k]

\* The doubled point lies on one of the planes that bound the slabs.
OnSlabPlane(q) ==
    \E k \in Axes : q[k] = 2 * search[1].domain.low[k] \/ q[k] = 2 * search[1].domain.high[k]

\* The values of t2 a ray of the lattice can meet a plane at.
RayTimes == 0..(4 * (GridMax + 2))

\* C33: whenever distance_to_edge(p, v) returns Ok(t), t is not negative and
\* is the smallest such value for which p + t v lies on the border of the
\* box; it returns OutOfBounds exactly when the ray meets no slab plane at
\* any t >= 0.
C33_SmallestDistanceToBorder ==
    /\ ret.kind = "ok" =>
          /\ ret.t.kind = "num"
          /\ ret.t.t2 >= 0
          /\ OnBoxBorder(RayAt(ret.t.t2))
          /\ \A t2 \in RayTimes : t2 < ret.t.t2 => ~OnBoxBorder(RayAt(t2))
    /\ ret.kind = "err" => \A t2 \in RayTimes : ~OnSlabPlane(RayAt(t2))
    /\ ret.kind = "ok" => \E t2 \in RayTimes : OnSlabPlane(RayAt(t2))

-----------------------------------------------------------------------------
(* binary_search_between.                                                  *)

\* The answer of the classifier is the class target_cls.
IsTarget(answer) == answer = (IF search[1].target_cls THEN "W" ELSE "O")

\* The positions strictly between p1 and p2, or p1 itself when they are equal.
Between(pos) ==
    \/ search[1].p1 < pos /\ pos < search[1].p2
    \/ search[1].p2 < pos /\ pos < search[1].p1
    \/ search[1].p1 = pos /\ search[1].p2 = pos

\* C34: binary_search_between returns Some(p) only for a midpoint p that it
\* queried and the classifier labelled target_cls, at the first such query,
\* and within max_samples queries; it returns None after exactly max_samples
\* queries none of which matched, without any query when max_samples = 0.
C34_FirstMatchOrNone ==
    LET asked == classifier.asked
        n == Len(asked)
    IN  /\ ret.kind = "some" =>
              /\ n >= 1
              /\ n <= search[1].max_samples
              /\ asked[n].p = LinePoint(ret.p)
              /\ IsTarget(asked[n].answer)
              /\ \A k \in 1..(n - 1) : asked[k].answer # "E" /\ ~IsTarget(asked[k].answer)
              /\ \A k \in 1..n : Between(asked[k].p.along)
              /\ 2 * asked[1].p.along = search[1].p1 + search[1].p2
        /\ ret.kind = "none" =>
              /\ n = search[1].max_samples
              /\ \A k \in 1..n : asked[k].answer # "E" /\ ~IsTarget(asked[k].answer)
        /\ n = classifier.calls

\* A Full search returned the point of its third query, and another search
\* returned None after max_samples > 0 queries.
C34_Witness ==
    \/ /\ ret.kind = "some"
       /\ search[1].mode = "Full"
       /\ Len(classifier.asked) = 3
       /\ classifier.asked[3].p.along # classifier.asked[2].p.along
    \/ /\ ret.kind = "none"
       /\ search[1].max_samples = MaxSamples
       /\ Len(classifier.asked) = MaxSamples

-----------------------------------------------------------------------------
(* The phase lines of a session.                                           *)

\* The line of the phase the session holds.
PhaseLine == TextWrite(classifier.phase \o "\n")

\* The writes of the step that carry a point follow, each, the line of the
\* phase the session held when the step began.
PointsFollowPhase ==
    \A i \in (Len(stream[1].tx) + 1)..Len(stream'[1].tx) :
        stream'[1].tx[i].bytes # << >> => (i > 1 /\ stream'[1].tx[i - 1] = PhaseLine)

\* C35 as stated: every classify call on a session writes the line of the
\* phase current at the call before any point bytes, the last line before a
\* point being that phase.
C35_PhaseBeforePoint ==
    [][IsSessionClassify => PointsFollowPhase]_vars

\* C35, amended: a classify call on a session in Messaging or Requesting
\* writes the line of the phase current at the call first, and the last
\* write before the bytes of its point is that line; a classify call on an
\* Incomplete session writes no phase line.
C35_PhaseBeforePointOfNewRequest ==
    [][IsSessionClassify =>
        /\ classifier.state \in {"Messaging", "Requesting"} =>
              /\ NewWrites # << >>
              /\ NewWrites[1] = PhaseLine
              /\ PointsFollowPhase
        /\ classifier.state = "Incomplete" =>
              \A i \in 1..Len(NewWrites) : NewWrites[i].text = ""]_vars

\* The phase was updated after the session was made, and a classify call on
\* the Requesting session wrote the new phase and then its point.
C35_Witness ==
    /\ classifier.kind = "Session"
    /\ log.op = "classify"
    /\ log.before = "Requesting"
    /\ ret.kind = "ok"
    /\ Len(stream[1].tx) >= 4
    /\ stream[1].tx[Len(stream[1].tx)].bytes # << >>
    /\ stream[1].tx[Len(stream[1].tx) - 1] = PhaseLine
    /\ stream[1].tx[2] # PhaseLine

-----------------------------------------------------------------------------
(* The queries of a step.                                                  *)

\* C36: a step that returns a sample or an error has invoked the classifier
\* exactly once, and a step that returns None has not invoked it.
C36_OneQueryPerStep ==
    [][/\ ret'.kind \in {"sample", "err"} => classifier'.calls = classifier.calls + 1
       /\ ret'.kind = "none" => classifier'.calls = classifier.calls]_vars

\* A step returned an error after others had returned samples, on an
\* adherer past its initial sample.
C36_Witness ==
    /\ ret.kind = "err"
    /\ classifier.calls >= 3
    /\ log.adh # << >>
    /\ Len(boundary) >= 2

-----------------------------------------------------------------------------
(* The two plain answers of find_opposing_boundary.                        *)

\* The point next to the edge: t0 + 0.999 * distance_to_edge(t0, v) * v.
NearEdge == search[1].t0 + search[1].v *
                Scale999(DistanceToEdge(search[1].domain, search[1].t0, search[1].v).t)

\* The search of num_checks queries between p1 and p2 finds no point of the
\* class target_cls.
NothingFound(mode, target_cls, p1, p2) ==
    LET r == BinarySearchBetween(mode, target_cls, search[1].num_checks, p1, p2,
                                 classifier)
    IN  ~r.panic /\ r.found = << >>

\* The call is over and returned Ok(b) for the point at pos.
FobReturned(pos) ==
    /\ search[1].pc = "done"
    /\ ret.kind = "ok"
    /\ ret.b = LinePoint(pos)

C37_WitnessOrigin ==
    /\ search # << >>
    /\ FobReturned(search[1].t0)
    /\ search[1].x = <<NearEdge>>
    /\ search[1].t = << >>
    /\ search[1].num_checks = MaxChecks
    /\ classifier.calls = MaxChecks + 1

-----------------------------------------------------------------------------
(* The states of a session.                                                *)

\* The classification returned OutOfBounds.
IsOutOfBounds(r) == r.kind = "err" /\ r.err = "OutOfBounds"

\* The last read of the connection took the line CONT.
ReadContinue ==
    /\ NewReads # << >>
    /\ NewReads[Len(NewReads)].call = "read_line"
    /\ Trim(NewReads[Len(NewReads)].data) = MSG_CONTINUE

\* C38: a session starts in Messaging; after a classify call that did not
\* fail in its exchange of phase and control lines the state is Incomplete if
\* and only if the classification returned OutOfBounds, and Messaging
\* otherwise; Requesting is entered only by expect_msg reading CONT on a
\* Messaging session.
C38_SessionStates ==
    [][/\ (classifier.kind = "Listening" /\ classifier'.kind = "Session") =>
            classifier'.state = "Messaging"
       /\ (IsSessionClassify /\ ret'.kind # "panic") =>
            /\ IsOutOfBounds(ret') <=> ~Contains(Normalized, log'.arg[1])
            /\ classifier'.state = (IF IsOutOfBounds(ret') THEN "Incomplete"
                                     ELSE "Messaging")
       /\ (/\ classifier.kind = "Session"
           /\ classifier'.kind = "Session"
           /\ classifier.state # "Requesting"
           /\ classifier'.state = "Requesting") =>
            /\ IsExpectMsg
            /\ classifier.state = "Messaging"
            /\ ReadContinue]_vars

\* A Requesting session classified a point outside the domain and is
\* Incomplete.
C38_Witness ==
    /\ classifier.kind = "Session"
    /\ log.op = "classify"
    /\ log.before = "Requesting"
    /\ ret = [kind |-> "err", err |-> "OutOfBounds"]
    /\ classifier.state = "Incomplete"

-----------------------------------------------------------------------------
(* Points and continue signals.                                            *)

\* The positions among the writes of those that carry a point.
PointWrites == {i \in 1..Len(stream[1].tx) : stream[1].tx[i].bytes # << >>}

\* The positions among the reads of those that took the line CONT.
ContinueReads ==
    {j \in 1..Len(stream[1].rx) :
        /\ stream[1].rx[j].call = "read_line"
        /\ Trim(stream[1].rx[j].data) = MSG_CONTINUE}

\* C39: through a session the server writes a point only when it has
\* consumed a CONT that no point has answered yet; a classify that fails
\* with OutOfBounds writes no point and keeps the CONT (state Incomplete) for
\* the next classify; at all times the number of points written is at most
\* the number of CONTs consumed, which is at most one more.
C39_PointsAnswerContinues ==
    (classifier.kind = "Session") =>
        /\ Cardinality(PointWrites) <= Cardinality(ContinueReads)
        /\ Cardinality(ContinueReads) <= Cardinality(PointWrites) + 1
        /\ \A i \in PointWrites :
              Cardinality({j \in ContinueReads : stream[1].rx[j].after < i})
                  = Cardinality({k \in PointWrites : k <= i})
        /\ classifier.state \in {"Incomplete", "Requesting"} =>
              Cardinality(ContinueReads) = Cardinality(PointWrites) + 1
        /\ (log.op = "classify" /\ IsOutOfBounds(ret)) =>
              /\ classifier.state = "Incomplete"
              /\ \A i \in PointWrites : i < Len(stream[1].tx)

\* A classify failed with OutOfBounds after the CONT was consumed, and the
\* next classify wrote the point that answers it: two CONTs, two points.
C39_Witness ==
    /\ classifier.kind = "Session"
    /\ log.op = "classify"
    /\ log.before = "Incomplete"
    /\ ret.kind = "ok"
    /\ Cardinality(PointWrites) = 2
    /\ Cardinality(ContinueReads) = 2

-----------------------------------------------------------------------------
(* The bytes of the client.                                                *)

\* C40: no byte sent by the client is lost or read twice: receive_msg
\* consumes exactly one line, newline included, from the connection and
\* leaves every byte after the newline for the next receive_msg or the next
\* read of a class; the bytes returned by the reads followed by the bytes
\* still on the connection are the bytes the client sent.
C40_NoByteLost ==
    /\ log.got \o stream[1].wire = log.sent
    /\ \A j \in 1..Len(stream[1].rx) :
          stream[1].rx[j].call = "read_line" =>
              NewlineAt(stream[1].rx[j].data, 1) = Len(stream[1].rx[j].data)

=============================================================================
